---------------------------- MODULE Spec2Model ----------------------------
(***************************************************************************)
(* The heuristic scoring engine of the lie analyzer (lib/analyzeFallback): *)
(* analyzeTranscriptFallback(raw, locale) and its helpers, modelled over   *)
(* character sequences.  A string is a sequence of one-character strings.  *)
(***************************************************************************)
EXTENDS Integers, Sequences, FiniteSets, TLC

VARIABLES
    hedgingKeywords,      \* module-level array (line 70)
    pressureKeywords,     \* module-level array (line 87)
    contradictionJoiners, \* module-level array (line 101)
    negationKeywords,     \* module-level array (line 103)
    raw,                  \* the text handed to the engine
    typed,                \* how many pieces the caller has put into raw
    result,               \* outcome of the last analyzeTranscriptFallback call
    probe,                \* an earlier outcome kept by an observer of the engine
    sample,               \* counts handed to the score synthesis, and its score
    revision,             \* the build that is served: "app", "unnamed", or "none"
    apiKey,               \* process.env.GITHUB_MODELS_TOKEN
    response,             \* the last response of POST /api/analyze
    request,              \* the form of the last request to POST /api/analyze
    prompt,               \* what that request sent to the remote classifier
    pageLocale,           \* the page's state: locale, ...
    selectedFile,
    fileContent,
    analysisText,
    analysis,
    analysisSource,
    status,
    errorState,
    isAnalyzing,
    tokens,               \* tokenState.tokens
    lastRefill,           \* tokenState.lastRefill, in milliseconds
    now,                  \* Date.now(), in milliseconds since the page was first opened
    reading,              \* the files a FileReader is reading
    run,                  \* the run of handleAnalyze that is under way
    gestures              \* how many gestures the user has made on the page

tables == <<hedgingKeywords, pressureKeywords, contradictionJoiners, negationKeywords>>
site == <<revision, apiKey, response, request, prompt>>
page == <<pageLocale, selectedFile, fileContent, analysisText, analysis, analysisSource,
          status, errorState, isAnalyzing, tokens, lastRefill, now, reading, run, gestures>>
clock == <<lastRefill, now>>
vars == <<hedgingKeywords, pressureKeywords, contradictionJoiners, negationKeywords,
          raw, typed, result, probe, sample, site, page>>

(***************************************************************************)
(* Bounds of the model.                                                    *)
(***************************************************************************)
MaxPieces == 3
MaxRep == 6
MaxWords == 330
MaxHits == 2
MaxGestures == 4

(***************************************************************************)
(* Characters.                                                             *)
(***************************************************************************)
LowerChars == {"a","b","c","d","e","f","g","h","i","j","k","l","m",
               "n","o","p","q","r","s","t","u","v","w","x","y","z"}
UpperChars == {"A","B","C","D","E","F","G","H","I","J","K","L","M",
               "N","O","P","Q","R","S","T","U","V","W","X","Y","Z"}
DigitChars == {"0","1","2","3","4","5","6","7","8","9"}

\* \w of a JavaScript regular expression: [A-Za-z0-9_]
WordChars == LowerChars \cup UpperChars \cup DigitChars \cup {"_"}
IsWordChar(c) == c \in WordChars

\* \s of a JavaScript regular expression (the white space the model uses)
IsSpace(c) == c \in {" ", "\n", "\t"}

\* [.!?] of the sentence splitter
IsTerminator(c) == c \in {".", "!", "?"}

LowerOf ==
    ("A" :> "a") @@ ("B" :> "b") @@ ("C" :> "c") @@ ("D" :> "d") @@ ("E" :> "e") @@
    ("F" :> "f") @@ ("G" :> "g") @@ ("H" :> "h") @@ ("I" :> "i") @@ ("J" :> "j") @@
    ("K" :> "k") @@ ("L" :> "l") @@ ("M" :> "m") @@ ("N" :> "n") @@ ("O" :> "o") @@
    ("P" :> "p") @@ ("Q" :> "q") @@ ("R" :> "r") @@ ("S" :> "s") @@ ("T" :> "t") @@
    ("U" :> "u") @@ ("V" :> "v") @@ ("W" :> "w") @@ ("X" :> "x") @@ ("Y" :> "y") @@
    ("Z" :> "z")

ToLowerChar(c) == IF c \in UpperChars THEN LowerOf[c] ELSE c

\* String.prototype.toLowerCase
toLowerCase(s) == [i \in 1..Len(s) |-> ToLowerChar(s[i])]

(***************************************************************************)
(* String primitives.                                                      *)
(***************************************************************************)
Minimum(S) == CHOOSE i \in S : \A j \in S : i <= j
Maximum(S) == CHOOSE i \in S : \A j \in S : i >= j

\* the indices of s that hold something other than white space
Inked(s) == {i \in 1..Len(s) : ~IsSpace(s[i])}

TrimStart(s) == IF Inked(s) = {} THEN <<>> ELSE SubSeq(s, Minimum(Inked(s)), Len(s))

TrimEnd(s) == IF Inked(s) = {} THEN <<>> ELSE SubSeq(s, 1, Maximum(Inked(s)))

\* String.prototype.trim
trim(s) == TrimEnd(TrimStart(s))

\* the literal `sub` occurs in s at position i
OccursAt(s, sub, i) ==
    /\ i >= 1
    /\ i + Len(sub) - 1 <= Len(s)
    /\ \A j \in 1..Len(sub) : s[i + j - 1] = sub[j]

\* String.prototype.includes
includes(s, sub) == \E i \in 1..(Len(s) - Len(sub) + 1) : OccursAt(s, sub, i)

\* the k-th smallest element of the set of indices `kept`
NthOf(kept, k) == CHOOSE i \in kept : Cardinality({j \in kept : j < i}) = k - 1

\* the last index of the white-space run of s that holds index i
RunEnd(s, i) ==
    Minimum({j \in i..Len(s) : IsSpace(s[j]) /\ (j = Len(s) \/ ~IsSpace(s[j + 1]))})

\* the indices where a match of /\s+/ starts: white space not preceded by
\* white space
WhitespaceStarts(s) ==
    {i \in 1..Len(s) : IsSpace(s[i]) /\ (i = 1 \/ ~IsSpace(s[i - 1]))}

\* the indices where a match of /(?<=[.!?])\s+/ starts: white space right
\* after a sentence terminator
SentenceBreakStarts(s) ==
    {i \in 2..Len(s) : IsSpace(s[i]) /\ IsTerminator(s[i - 1])}

\* the k-th segment of s when the separators start at `starts`, each being the
\* white-space run from its start
Segment(s, starts, k) ==
    SubSeq(s,
           IF k = 1 THEN 1 ELSE RunEnd(s, NthOf(starts, k - 1)) + 1,
           IF k = Cardinality(starts) + 1 THEN Len(s) ELSE NthOf(starts, k) - 1)

\* String.prototype.split with separators starting at `starts`: the segments
\* between the separators, empty ones included
SplitAt(s, starts) == [k \in 1..(Cardinality(starts) + 1) |-> Segment(s, starts, k)]

\* s.split(/\s+/)
SplitWhitespace(s) == SplitAt(s, WhitespaceStarts(s))

\* s.split(/(?<=[.!?])\s+/): the terminator stays with the segment before it
SplitSentences(s) == SplitAt(s, SentenceBreakStarts(s))

SelectIndices(seq, kept) == [k \in 1..Cardinality(kept) |-> seq[NthOf(kept, k)]]

\* Array.prototype.filter: the elements of seq whose flag is set, in order
Filter(seq, flags) == SelectIndices(seq, {i \in 1..Len(seq) : flags[i]})

NonEmpty(s) == Len(s) > 0

\* filter(Boolean) / filter((segment) => segment.length > 0)
KeepNonEmpty(seq) == Filter(seq, [k \in 1..Len(seq) |-> NonEmpty(seq[k])])

\* map((segment) => segment.trim())
TrimAll(segments) == [k \in 1..Len(segments) |-> trim(segments[k])]

\* lower.split(/\s+/).filter(Boolean)  (line 219)
WordsOf(lower) == KeepNonEmpty(SplitWhitespace(lower))

\* text.split(...).map(trim).filter(length > 0)  (lines 220-223)
SentencesOf(text) == KeepNonEmpty(TrimAll(SplitSentences(text)))

(***************************************************************************)
(* Numbers and their formatting.  A density is the rational hits / den.    *)
(***************************************************************************)
Max(a, b) == IF a >= b THEN a ELSE b
Min(a, b) == IF a <= b THEN a ELSE b
Abs(a) == IF a >= 0 THEN a ELSE -a

\* Math.round of the rational num / den (den > 0): floor(num / den + 1/2)
\* The source rounds a double; the double and the rational round alike unless
\* the rational is an exact half with an inexact quotient behind it, which no
\* transcript within the bounds of this model produces.
MathRound(num, den) == (2 * num + den) \div (2 * den)

DigitChar(d) == <<"0","1","2","3","4","5","6","7","8","9">>[d + 1]

\* `${n}` of a non-negative integer
RECURSIVE IntToString(_)
IntToString(n) ==
    IF n < 10 THEN <<DigitChar(n)>>
    ELSE IntToString(n \div 10) \o <<DigitChar(n % 10)>>

\* a number of tenths written with one decimal
TenthsString(tenths) ==
    IntToString(tenths \div 10) \o <<".", DigitChar(tenths % 10)>>

\* (num / den * 100).toFixed(1): the nearest number of tenths
toFixed1(num, den) == TenthsString(MathRound(1000 * num, den))

\* `${(density * 100).toFixed(1)}%`
PercentString(num, den) == toFixed1(num, den) \o <<"%">>

\* n.toLocaleString() in the host's default (en-US) locale: groups of three
RECURSIVE toLocaleString(_)
toLocaleString(n) ==
    IF n < 1000 THEN IntToString(n)
    ELSE toLocaleString(n \div 1000) \o <<",">> \o
         <<DigitChar((n % 1000) \div 100), DigitChar((n \div 10) % 10), DigitChar(n % 10)>>

\* Array.prototype.sort((a, b) => key(b) - key(a)), which is stable: the
\* elements of seq by descending key, equal keys in their original order
RankDesc(keys, i) ==
    1 + Cardinality({j \in 1..Len(keys) :
                        keys[j] > keys[i] \/ (keys[j] = keys[i] /\ j < i)})

SortDescBy(seq, keys) ==
    [pos \in 1..Len(seq) |-> seq[CHOOSE i \in 1..Len(seq) : RankDesc(keys, i) = pos]]

\* slice left out: the whole array
Unsliced(seq, n) == seq

\* Array.prototype.slice(0, n)
Slice(seq, n) == SubSeq(seq, 1, Min(Len(seq), n))

(***************************************************************************)
(* Keyword matching (lines 166-185).                                       *)
(***************************************************************************)
\* \b before position i of text (i = Len(text) + 1: at the end)
WordBoundaryAt(text, i) ==
    LET before == i > 1 /\ IsWordChar(text[i - 1])
        after  == i <= Len(text) /\ IsWordChar(text[i])
    IN  before # after

\* new RegExp(`\\b${escapeRegExp(keyword)}\\b`, 'gi') matches at position i of
\* the text.  The escaped keyword is matched literally (line 166); under the
\* flag i characters are compared in case-folded form: `folded` is the folded
\* text, which the caller computes once
PatternMatchesAt(folded, keyword, i) ==
    /\ i + Len(keyword) - 1 <= Len(folded)
    /\ \A j \in 1..Len(keyword) : folded[i + j - 1] = ToLowerChar(keyword[j])
    /\ WordBoundaryAt(folded, i)
    /\ WordBoundaryAt(folded, i + Len(keyword))

\* the positions at which the pattern matches
MatchPositions(folded, keyword) ==
    {i \in 1..(Len(folded) - Len(keyword) + 1) : PatternMatchesAt(folded, keyword, i)}


\* the start positions of the successive matches of the global pattern: each
\* match is the leftmost one at or after the end of the match before it
RECURSIVE MatchesFrom(_, _, _)
MatchesFirst(positions, length, first) ==
    <<first>> \o MatchesFrom(positions, length, first + length)

MatchesAmong(positions, length, rest) ==
    IF rest = {} THEN <<>> ELSE MatchesFirst(positions, length, Minimum(rest))

MatchesFrom(positions, length, from) ==
    MatchesAmong(positions, length, {i \in positions : i >= from})

\* what String.prototype.match returns for the matches found: null for none
MatchResult(found) == [isNull |-> found = <<>>, items |-> found]

\* text.match(pattern)
match(folded, keyword) ==
    MatchResult(MatchesFrom(MatchPositions(folded, keyword), Len(keyword), 1))

\* total + matches.length, without the test for null: reading .length of null
\* is a TypeError
AddMatchesUnguarded(acc, matches) ==
    [threw |-> acc.threw \/ matches.isNull, value |-> acc.value + Len(matches.items)]

\* total + (matches ? 1 : 0): keywords present rather than occurrences
AddMatchesOnce(acc, matches) ==
    [threw |-> acc.threw, value |-> acc.value + (IF matches.isNull THEN 0 ELSE 1)]

\* total + (matches ? matches.length : 0)  (line 172); acc is [threw, value]
AddMatches(acc, matches) ==
    IF ~matches.isNull
    THEN [threw |-> acc.threw, value |-> acc.value + Len(matches.items)]
    ELSE [threw |-> acc.threw, value |-> acc.value + 0]

\* one step of the reduce of countKeywordHits (lines 170-172)
KeywordHitStep(acc, folded, keyword) == AddMatches(acc, match(folded, keyword))

RECURSIVE ReduceKeywordHits(_, _, _, _)
ReduceKeywordHits(acc, folded, keywords, k) ==
    IF k > Len(keywords) THEN acc
    ELSE ReduceKeywordHits(KeywordHitStep(acc, folded, keywords[k]), folded, keywords, k + 1)

\* countKeywordHits (lines 168-173): [threw, value]
countKeywordHits(text, keywords) ==
    ReduceKeywordHits([threw |-> FALSE, value |-> 0], toLowerCase(text), keywords, 1)

\* matches?.length ?? 0
OptionalLength(matches) == IF matches.isNull THEN 0 ELSE Len(matches.items)

\* text.match(pattern)?.length ?? 0  (line 179)
KeywordCount(folded, keyword) == OptionalLength(match(folded, keyword))

\* `${item.keyword}(${item.count})`  (line 185)
SignalString(item) == item.keyword \o <<"(">> \o IntToString(item.count) \o <<")">>

HasCount(item) == item.count > 0

\* the map of lines 177-181
CountKeywords(folded, keywords) ==
    [k \in 1..Len(keywords) |->
        [keyword |-> keywords[k], count |-> KeywordCount(folded, keywords[k])]]

\* .filter((item) => item.count > 0)  (line 182)
KeepCounted(counted) == Filter(counted, [k \in 1..Len(counted) |-> HasCount(counted[k])])

\* .sort((a, b) => b.count - a.count)  (line 183)
SortByCount(kept) == SortDescBy(kept, [k \in 1..Len(kept) |-> kept[k].count])

\* .map((item) => `${item.keyword}(${item.count})`)  (line 185)
FormatSignals(top) == [k \in 1..Len(top) |-> SignalString(top[k])]

\* extractKeywordSignals (lines 175-185)
extractKeywordSignals(text, keywords) ==
    FormatSignals(Slice(SortByCount(KeepCounted(CountKeywords(toLowerCase(text), keywords))), 4))

(***************************************************************************)
(* The copy tables (lines 105-164).  A text field of a result is a record  *)
(* [lang, key, args]: an entry `key` of the copy table of language `lang`  *)
(* with the strings interpolated into it, or, with lang = "none", a string *)
(* the engine builds itself (args[1]).                                     *)
(***************************************************************************)
\* type Locale = 'ko' | 'en'  (line 10)
Locale == {"ko", "en"}

\* what a caller may pass as locale: a supported tag, an unsupported one, or
\* nothing at all
LocaleArgs == Locale \cup {"fr", "undefined"}

CopyText(lang, key) == [lang |-> lang, key |-> key, args |-> <<>>]
CopyTemplate(lang, key, args) == [lang |-> lang, key |-> key, args |-> args]
Verbatim(chars) == [lang |-> "none", key |-> "verbatim", args |-> <<chars>>]

fallbackDictionary ==
    [l \in Locale |->
        [hedgingLabel       |-> CopyText(l, "hedgingLabel"),
         hedgingDetailNone  |-> CopyText(l, "hedgingDetailNone"),
         pressureLabel      |-> CopyText(l, "pressureLabel"),
         pressureDetailNone |-> CopyText(l, "pressureDetailNone"),
         negationLabel      |-> CopyText(l, "negationLabel"),
         negationDetail     |-> CopyText(l, "negationDetail"),
         conflictLabel      |-> CopyText(l, "conflictLabel"),
         conflictDetail     |-> CopyText(l, "conflictDetail"),
         metrics  |-> [wordCountLabel |-> CopyText(l, "metrics.wordCountLabel"),
                       wordCountHint  |-> CopyText(l, "metrics.wordCountHint"),
                       coverageLabel  |-> CopyText(l, "metrics.coverageLabel"),
                       coverageHint   |-> CopyText(l, "metrics.coverageHint"),
                       negationLabel  |-> CopyText(l, "metrics.negationLabel"),
                       negationHint   |-> CopyText(l, "metrics.negationHint")],
         evidence |-> [noDataQuote    |-> CopyText(l, "evidence.noDataQuote"),
                       noDataDetail   |-> CopyText(l, "evidence.noDataDetail"),
                       hedgePrefix    |-> CopyText(l, "evidence.hedgePrefix"),
                       pressurePrefix |-> CopyText(l, "evidence.pressurePrefix"),
                       defaultDetail  |-> CopyText(l, "evidence.defaultDetail")]]]

\* the template functions of a copy table: summary (lines 107, 136),
\* hedgingDetail (110, 139) and pressureDetail (113, 142)
CopySummary(copy, hedgingPercent, pressurePercent, lieProbability) ==
    CopyTemplate(copy.hedgingLabel.lang, "summary",
                 <<hedgingPercent, pressurePercent, IntToString(lieProbability)>>)
CopyHedgingDetail(copy, signals) ==
    CopyTemplate(copy.hedgingLabel.lang, "hedgingDetail", signals)
CopyPressureDetail(copy, signals) ==
    CopyTemplate(copy.pressureLabel.lang, "pressureDetail", signals)

\* fallbackDictionary[locale]: undefined for a tag the table does not hold
DictionaryEntry(locale) ==
    IF locale \in DOMAIN fallbackDictionary
    THEN [defined |-> TRUE, copy |-> fallbackDictionary[locale]]
    ELSE [defined |-> FALSE, copy |-> <<>>]

\* the default of the locale parameter (line 216)
LocaleParameter(localeArg) == IF localeArg = "undefined" THEN "ko" ELSE localeArg

\* entry ?? fallbackDictionary.ko
OrDefaultCopy(entry) == IF entry.defined THEN entry.copy ELSE fallbackDictionary["ko"]

\* the 'ko' table whatever the locale
KoreanCopy(locale) == fallbackDictionary["ko"]

\* fallbackDictionary[locale] ?? fallbackDictionary.ko  (line 278)
FallbackCopy(locale) == OrDefaultCopy(DictionaryEntry(locale))

\* if (signals[index]) rationaleParts.push(`${prefix}: ${signals[index]}`)
\* (lines 206-207); index is 0-based and signals[index] is truthy when it exists
SignalPart(prefix, signals, index) ==
    IF index + 1 <= Len(signals)
    THEN <<[prefix |-> prefix, signal |-> signals[index + 1]]>>
    ELSE <<>>

\* rationaleParts.length > 0 ? rationaleParts.join(' | ') : copy.defaultDetail
JoinRationale(copy, lang, rationaleParts) ==
    IF Len(rationaleParts) > 0
    THEN CopyTemplate(lang, "evidence.rationale", rationaleParts)
    ELSE copy.defaultDetail

\* one entry of the map of synthesizeEvidence (lines 204-213)
EvidenceEntry(copy, lang, sentence, index, hedgingSignals, pressureSignals) ==
    [quote     |-> Verbatim(sentence),
     rationale |-> JoinRationale(copy, lang,
                       SignalPart(copy.hedgePrefix, hedgingSignals, index)
                       \o SignalPart(copy.pressurePrefix, pressureSignals, index))]

\* lines 204-213 alone, without the placeholder of lines 195-202
EvidenceWithoutPlaceholder(copy, highlighted, hedgingSignals, pressureSignals, locale) ==
    [k \in 1..Len(highlighted) |->
        EvidenceEntry(copy, locale, highlighted[k], k - 1, hedgingSignals,
                      pressureSignals)]

\* lines 195-213, with copy = fallbackDictionary[locale].evidence
EvidenceWith(copy, highlighted, hedgingSignals, pressureSignals, locale) ==
    IF Len(highlighted) = 0
    THEN <<[quote |-> copy.noDataQuote, rationale |-> copy.noDataDetail]>>
    ELSE [k \in 1..Len(highlighted) |->
            EvidenceEntry(copy, locale, highlighted[k], k - 1,
                          hedgingSignals, pressureSignals)]

\* line 193: reading .evidence of an undefined table entry is a TypeError
EvidenceFrom(entry, highlighted, hedgingSignals, pressureSignals, locale) ==
    IF ~entry.defined THEN [threw |-> TRUE, value |-> <<>>]
    ELSE [threw |-> FALSE,
          value |-> EvidenceWith(entry.copy.evidence, highlighted, hedgingSignals,
                                 pressureSignals, locale)]

\* synthesizeEvidence (lines 187-214): [threw, value]
synthesizeEvidence(highlighted, hedgingSignals, pressureSignals, locale) ==
    EvidenceFrom(DictionaryEntry(locale), highlighted, hedgingSignals,
                 pressureSignals, locale)

(***************************************************************************)
(* Sentence selection (lines 233-257).                                     *)
(***************************************************************************)
\* contradictionJoiners.some((joiner) => normalized.includes(` ${joiner} `))
\* (line 237)
HasSpacedJoiner(normalized) ==
    \E k \in 1..Len(contradictionJoiners) :
        includes(normalized, <<" ">> \o contradictionJoiners[k] \o <<" ">>)

\* the denial / assertion markers of lines 238-241
HasMarker(normalized) ==
    \/ includes(normalized, <<"i"," ","d","i","d","n","'","t">>)
    \/ includes(normalized, <<"i"," ","d","i","d">>)
    \/ includes(normalized, <<"n","e","v","e","r">>)
    \/ includes(normalized, <<"n","o">>)

\* the test of lines 236-242 on the lower-cased sentence
HasJoinerAndMarker(normalized) == HasSpacedJoiner(normalized) /\ HasMarker(normalized)

\* the sentence filter of contradictionCandidates (lines 234-243)
IsContradictionCandidate(sentence) == HasJoinerAndMarker(toLowerCase(sentence))

\* contradictionCandidates (lines 233-244)
ContradictionCandidates(sentences) ==
    Slice(Filter(sentences, [k \in 1..Len(sentences) |->
                                IsContradictionCandidate(sentences[k])]), 3)

\* how many of the keywords the lower-cased sentence includes
CountIncluded(normalized, keywords) ==
    Cardinality({k \in 1..Len(keywords) : includes(normalized, keywords[k])})

\* keywordHits of a sentence (lines 248-251), over
\* [...hedgingKeywords, ...pressureKeywords]
SentenceKeywordHits(sentence) ==
    CountIncluded(toLowerCase(sentence), hedgingKeywords \o pressureKeywords)

HasKeywordHits(entry) == entry.keywordHits > 0

\* the map of lines 247-253
ScoreSentences(sentences) ==
    [k \in 1..Len(sentences) |->
        [sentence |-> sentences[k], keywordHits |-> SentenceKeywordHits(sentences[k])]]

\* .filter((entry) => entry.keywordHits > 0)  (line 254)
KeepHit(entries) == Filter(entries, [k \in 1..Len(entries) |-> HasKeywordHits(entries[k])])

\* .sort((a, b) => b.keywordHits - a.keywordHits)  (line 255)
SortByKeywordHits(kept) == SortDescBy(kept, [k \in 1..Len(kept) |-> kept[k].keywordHits])

\* .map((entry) => entry.sentence)  (line 257)
SentencesIn(top) == [k \in 1..Len(top) |-> top[k].sentence]

\* highlightedSentences (lines 246-257)
HighlightedSentences(sentences) ==
    SentencesIn(Slice(SortByKeywordHits(KeepHit(ScoreSentences(sentences))), 3))

(***************************************************************************)
(* Score synthesis (lines 259-273).  With den = max(words, 1) the base     *)
(* score is the rational BaseScoreNumerator / den.                         *)
(***************************************************************************)
BaseProbability == 42
HedgingWeight == 520
PressureWeight == 360
NegationWeight == 180
ContradictionWeight == 4
LieFloor == 5
LieCeiling == 96
ConfidenceBase == 58
CoverageWords == 320
CoverageWeight == 32
StabilityWeight == 120
ConfidenceFloor == 38
ConfidenceCeiling == 94

\* a base score with the hedging and the pressure weight exchanged
BaseScoreWeightsSwapped(hedgingHits, pressureHits, negationHits, den, contradictions) ==
    (BaseProbability + contradictions * ContradictionWeight) * den
    + hedgingHits * PressureWeight
    + pressureHits * HedgingWeight
    + negationHits * NegationWeight

\* a base score in which negations count against deception
BaseScoreNegationOffsets(hedgingHits, pressureHits, negationHits, den, contradictions) ==
    (BaseProbability + contradictions * ContradictionWeight) * den
    + hedgingHits * HedgingWeight
    + pressureHits * PressureWeight
    - negationHits * NegationWeight

\* baseScore (lines 259-264), times den
BaseScoreNumerator(hedgingHits, pressureHits, negationHits, den, contradictions) ==
    (BaseProbability + contradictions * ContradictionWeight) * den
    + hedgingHits * HedgingWeight
    + pressureHits * PressureWeight
    + negationHits * NegationWeight

\* Math.round(baseScore)
RoundedBaseScore(hedgingHits, pressureHits, negationHits, den, contradictions) ==
    MathRound(BaseScoreNumerator(hedgingHits, pressureHits, negationHits, den,
                                 contradictions), den)

\* the rounded base score without the clamp of line 266
LieProbabilityUnclamped(hedgingHits, pressureHits, negationHits, den, contradictions) ==
    RoundedBaseScore(hedgingHits, pressureHits, negationHits, den, contradictions)

\* lieProbability (line 266)
LieProbabilityOf(hedgingHits, pressureHits, negationHits, den, contradictions) ==
    Min(LieCeiling,
        Max(LieFloor, RoundedBaseScore(hedgingHits, pressureHits, negationHits, den,
                                       contradictions)))

\* the same without the cap of the coverage factor (Math.min(1, ...))
ConfidenceUncapped(hedgingHits, pressureHits, words, den) ==
    ConfidenceBase * CoverageWords * den
    + words * CoverageWeight * den
    - Abs(hedgingHits - pressureHits) * StabilityWeight * CoverageWords

\* the same with the stability penalty added instead of subtracted
ConfidencePenaltyAdded(hedgingHits, pressureHits, words, den) ==
    ConfidenceBase * CoverageWords * den
    + Min(CoverageWords, words) * CoverageWeight * den
    + Abs(hedgingHits - pressureHits) * StabilityWeight * CoverageWords

\* 58 + coverageFactor * 32 - stabilityPenalty (lines 268-272), times
\* 320 * den: coverageFactor = min(1, words / 320) and stabilityPenalty =
\* |hedgingHits / den - pressureHits / den| * 120
ConfidenceNumerator(hedgingHits, pressureHits, words, den) ==
    ConfidenceBase * CoverageWords * den
    + Min(CoverageWords, words) * CoverageWeight * den
    - Abs(hedgingHits - pressureHits) * StabilityWeight * CoverageWords

\* Math.round(58 + coverageFactor * 32 - stabilityPenalty), den = max(words, 1)
RoundedConfidenceOver(hedgingHits, pressureHits, words, den) ==
    MathRound(ConfidenceNumerator(hedgingHits, pressureHits, words, den),
              CoverageWords * den)

RoundedConfidence(hedgingHits, pressureHits, words) ==
    RoundedConfidenceOver(hedgingHits, pressureHits, words, Max(words, 1))

\* confidenceScore (lines 270-273)
ConfidenceScoreOf(hedgingHits, pressureHits, words) ==
    Max(ConfidenceFloor,
        Min(ConfidenceCeiling, RoundedConfidence(hedgingHits, pressureHits, words)))

(***************************************************************************)
(* Cue risk levels (lines 284, 293, 302, 311).  density > t / 1000 is      *)
(* 1000 * hits > t * den.                                                  *)
(***************************************************************************)
HedgingRisk(hits, den) ==
    IF 1000 * hits > 35 * den THEN "Elevated"
    ELSE IF 1000 * hits > 20 * den THEN "Baseline" ELSE "Baseline"

\* the pressure cue without its middle tier
PressureRiskTwoTiers(hits, den) ==
    IF 1000 * hits > 30 * den THEN "Critical" ELSE "Baseline"

PressureRisk(hits, den) ==
    IF 1000 * hits > 30 * den THEN "Critical"
    ELSE IF 1000 * hits > 15 * den THEN "Elevated" ELSE "Baseline"

NegationRisk(hits, den) ==
    IF 1000 * hits > 25 * den THEN "Elevated" ELSE "Baseline"

ConflictRisk(count) == IF count > 1 THEN "Critical" ELSE "Elevated"

(***************************************************************************)
(* analyzeTranscriptFallback (lines 216-342).  The outcome of a call is    *)
(* [status, value]: status "returned" with the AnalysisResult, or "threw". *)
(***************************************************************************)
Threw == [status |-> "threw", value |-> <<>>]

\* the hedging cue (lines 281-289)
HedgingCue(fallbackCopy, hits, den, hedgingSignals) ==
    [label  |-> fallbackCopy.hedgingLabel,
     value  |-> Verbatim(PercentString(hits, den)),
     risk   |-> HedgingRisk(hits, den),
     detail |-> IF Len(hedgingSignals) > 0
                THEN CopyHedgingDetail(fallbackCopy, hedgingSignals)
                ELSE fallbackCopy.hedgingDetailNone]

\* the pressure cue (lines 290-298)
PressureCue(fallbackCopy, hits, den, pressureSignals) ==
    [label  |-> fallbackCopy.pressureLabel,
     value  |-> Verbatim(PercentString(hits, den)),
     risk   |-> PressureRisk(hits, den),
     detail |-> IF Len(pressureSignals) > 0
                THEN CopyPressureDetail(fallbackCopy, pressureSignals)
                ELSE fallbackCopy.pressureDetailNone]

\* the negation cue (lines 299-304)
NegationCue(fallbackCopy, hits, den) ==
    [label  |-> fallbackCopy.negationLabel,
     value  |-> Verbatim(PercentString(hits, den)),
     risk   |-> NegationRisk(hits, den),
     detail |-> fallbackCopy.negationDetail]

\* the conflict cue (lines 308-313)
ConflictCue(fallbackCopy, contradictions) ==
    [label  |-> fallbackCopy.conflictLabel,
     value  |-> Verbatim(IntToString(contradictions)),
     risk   |-> ConflictRisk(contradictions),
     detail |-> fallbackCopy.conflictDetail]

\* cues.push(...) without the test of line 307
PushConflictCueAlways(cues, fallbackCopy, contradictions) ==
    Append(cues, ConflictCue(fallbackCopy, contradictions))

\* if (contradictionCandidates.length > 0) cues.push(...)  (lines 307-314)
PushConflictCue(cues, fallbackCopy, contradictions) ==
    IF contradictions > 0 THEN Append(cues, ConflictCue(fallbackCopy, contradictions))
    ELSE cues

\* cues (lines 280-314)
Cues(fallbackCopy, hedgingHits, pressureHits, negationHits, den, contradictions, hedgingSignals, pressureSignals) ==
    PushConflictCue(<< HedgingCue(fallbackCopy, hedgingHits, den, hedgingSignals),
                       PressureCue(fallbackCopy, pressureHits, den, pressureSignals),
                       NegationCue(fallbackCopy, negationHits, den) >>,
                    fallbackCopy, contradictions)

\* metrics (lines 316-332)
Metrics(fallbackCopy, words, sentenceCount, highlightedCount, negationHits, den) ==
    << [label |-> fallbackCopy.metrics.wordCountLabel,
        value |-> Verbatim(toLocaleString(words) \o <<" ","t","e","r","m","s">>),
        hint  |-> fallbackCopy.metrics.wordCountHint],
       [label |-> fallbackCopy.metrics.coverageLabel,
        value |-> Verbatim(IntToString(MathRound(highlightedCount * 100,
                                                 Max(sentenceCount, 1))) \o <<"%">>),
        hint  |-> fallbackCopy.metrics.coverageHint],
       [label |-> fallbackCopy.metrics.negationLabel,
        value |-> Verbatim(PercentString(negationHits, den)),
        hint  |-> fallbackCopy.metrics.negationHint] >>

\* the object returned (lines 334-341)
AnalysisResult(lieProbability, confidenceScore, fallbackCopy, words, den, sentenceCount, hedgingHits, pressureHits, negationHits, contradictions, highlightedCount, hedgingSignals, pressureSignals, evidence) ==
    [lieProbability  |-> lieProbability,
     confidenceScore |-> confidenceScore,
     summary  |-> CopySummary(fallbackCopy, toFixed1(hedgingHits, den),
                              toFixed1(pressureHits, den), lieProbability),
     cues     |-> Cues(fallbackCopy, hedgingHits, pressureHits, negationHits, den,
                       contradictions, hedgingSignals, pressureSignals),
     metrics  |-> Metrics(fallbackCopy, words, sentenceCount, highlightedCount,
                          negationHits, den),
     evidence |-> evidence]

\* lines 259-341, once the counts, the copy table and the evidence are known;
\* the hit counts and the evidence are [threw, value]
Compose(words, den, sentenceCount, hedgingHits, pressureHits, negationHits, contradictions, highlightedCount, hedgingSignals, pressureSignals, fallbackCopy, evidence) ==
    IF hedgingHits.threw \/ pressureHits.threw \/ negationHits.threw \/ evidence.threw
    THEN Threw
    ELSE [status |-> "returned",
          value  |-> AnalysisResult(
                        LieProbabilityOf(hedgingHits.value, pressureHits.value,
                                         negationHits.value, den, contradictions),
                        ConfidenceScoreOf(hedgingHits.value, pressureHits.value, words),
                        fallbackCopy, words, den, sentenceCount,
                        hedgingHits.value, pressureHits.value, negationHits.value,
                        contradictions, highlightedCount, hedgingSignals,
                        pressureSignals, evidence.value)]

\* lines 229-231, 278 and 340: the denominator of the densities, the copy
\* table and the evidence
Synthesize(words, sentenceCount, hedgingHits, pressureHits, negationHits, contradictions, highlightedSentences, hedgingSignals, pressureSignals, locale) ==
    Compose(words, Max(words, 1), sentenceCount, hedgingHits, pressureHits,
            negationHits, contradictions, Len(highlightedSentences), hedgingSignals,
            pressureSignals, FallbackCopy(locale),
            synthesizeEvidence(highlightedSentences, hedgingSignals, pressureSignals,
                               locale))

\* lines 219 and 225-276 on the lower-cased text and the sentences
AnalyzeTokens(lower, sentences, locale) ==
    Synthesize(Len(WordsOf(lower)), Len(sentences),
               countKeywordHits(lower, hedgingKeywords),
               countKeywordHits(lower, pressureKeywords),
               countKeywordHits(lower, negationKeywords),
               Len(ContradictionCandidates(sentences)),
               HighlightedSentences(sentences),
               extractKeywordSignals(lower, hedgingKeywords),
               extractKeywordSignals(lower, pressureKeywords),
               locale)

\* lines 218 and 220-223 on the trimmed text
AnalyzeText(text, locale) == AnalyzeTokens(toLowerCase(text), SentencesOf(text), locale)

\* analyzeTranscriptFallback (lines 216-342)
analyzeTranscriptFallback(rawText, localeArg) ==
    AnalyzeText(trim(rawText), LocaleParameter(localeArg))

(***************************************************************************)
(* The state machine: a caller assembles a transcript from pieces and      *)
(* hands it to the engine.                                                 *)
(***************************************************************************)
\* the pieces transcripts are assembled from
Vocabulary ==
    { <<" ">>,
      <<"1","0","0","%"," ">>,
      <<"m","a","y","b","e"," ">>,
      <<"I"," ","d","i","d","n","'","t"," ","t","a","k","e"," ","i","t",","," ","b","u","t"," ","I"," ","d","i","d"," ","r","e","t","u","r","n"," ","l","a","t","e","r","."," ">>,
      <<"H","o","w","e","v","e","r",","," ","I"," ","n","e","v","e","r"," ","w","e","n","t","."," ">>,
      <<"T","r","u","s","t"," ","m","e",","," ","I"," ","t","h","i","n","k"," ","s","o","!"," ","H","o","n","e","s","t","l","y","?"," ">>,
      <<"N","o","t"," ","n","o","t","a","b","l","e","."," ">> }

\* the record of a call: its arguments and its outcome
CallRecord(text, localeArg, outcome) ==
    [status |-> outcome.status, text |-> text, locale |-> localeArg,
     value |-> outcome.value]

NoCall == [status |-> "none", text |-> <<>>, locale |-> "undefined", value |-> <<>>]

\* no counts handed to the score synthesis
NoSample == [status |-> "none", words |-> 0, hedgingHits |-> 0, pressureHits |-> 0,
             negationHits |-> 0, confidenceScore |-> 0, hedgingRisk |-> "none",
             pressureRisk |-> "none", negationRisk |-> "none"]

(***************************************************************************)
(* The application around the engine: the route POST /api/analyze and the  *)
(* page.  The sources hold two revisions of each: app/page.tsx with        *)
(* app/api/analyze/route.ts, and the unnamed pair (the page that posts to  *)
(* the route, the route that falls back on the engine).                    *)
(***************************************************************************)
\* U+0000, U+2026 and U+0060, written by name
NUL == "NUL"
ELLIPSIS == "ELLIPSIS"
BACKTICK == "BACKTICK"

\* the characters of [\u0000-\u001F\u007F] that occur in the model's files
ControlChars == {NUL, "\t", "\n"}

\* the characters of \s that occur in the model's files
WhiteSpace == {" ", "\t", "\n"}

\* the indices where a maximal run of characters of `class` starts
RunStarts(s, class) ==
    {i \in 1..Len(s) : s[i] \in class /\ (i = 1 \/ s[i - 1] \notin class)}

\* the indices that s.replace(/[class]+/g, ' ') keeps: every character outside
\* the class and one place for each run
Surviving(s, class) == {i \in 1..Len(s) : s[i] \notin class} \cup RunStarts(s, class)

ReplacedAt(s, class, i) == IF s[i] \in class THEN " " ELSE s[i]

\* s.replace(/[class]+/g, ' ')
ReplaceRuns(s, class) ==
    [k \in 1..Cardinality(Surviving(s, class)) |->
        ReplacedAt(s, class, NthOf(Surviving(s, class), k))]

\* String.prototype.indexOf and lastIndexOf of one character, counted from 1;
\* 0 when the character does not occur
IndexOf(s, c) ==
    IF \E i \in 1..Len(s) : s[i] = c THEN Minimum({i \in 1..Len(s) : s[i] = c}) ELSE 0

LastIndexOf(s, c) ==
    IF \E i \in 1..Len(s) : s[i] = c THEN Maximum({i \in 1..Len(s) : s[i] = c}) ELSE 0

(***************************************************************************)
(* Uploaded files.  A file is [name, type, text]: its name, the media type *)
(* the browser declares and the text its extractor yields (the decoded     *)
(* content of a text file, the text layer of a PDF).  JSON and HTML        *)
(* uploads, whose extractors rewrite the content, are not among the files  *)
(* of the model.                                                           *)
(***************************************************************************)
NoFile == [name |-> <<>>, type |-> "null", text |-> <<>>]

Files ==
    { [name |-> <<"n","o","t","e","s",".","t","x","t">>, type |-> "text/plain",
       text |-> <<"T","r","u","s","t",NUL,"m","e",","," ","m","a","y","b","e",".","\n">>],
      [name |-> <<"B","L","A","N","K",".","T","X","T">>, type |-> "",
       text |-> <<" ","\n","\t">>],
      [name |-> <<"s","c","a","n",".","p","d","f">>, type |-> "application/pdf",
       text |-> <<"I"," ","n","e","v","e","r"," ","w","e","n","t",".">>],
      [name |-> <<"p","h","o","t","o",".","p","n","g">>, type |-> "image/png",
       text |-> <<>>] }

\* the keys of SUPPORTED_TYPES (part_003 lines 76-118, route.ts lines 7-44)
SUPPORTED_TYPES ==
    {"text/plain", "application/json", "text/csv", "text/html", "application/pdf"}

\* FALLBACK_EXTENSIONS (part_003 lines 120-127, route.ts lines 46-53)
FALLBACK_EXTENSIONS ==
    (<<".","t","x","t">> :> "text/plain") @@ (<<".","j","s","o","n">> :> "application/json") @@
    (<<".","c","s","v">> :> "text/csv") @@ (<<".","h","t","m","l">> :> "text/html") @@
    (<<".","h","t","m">> :> "text/html") @@ (<<".","p","d","f">> :> "application/pdf")

\* the properties of Object.prototype that a lower-cased string can name:
\* SUPPORTED_TYPES and FALLBACK_EXTENSIONS are object literals, and a lookup
\* by such a key yields the inherited value
InheritedKeys == {"constructor", "__proto__"}

\* SUPPORTED_TYPES[type] (part_003 lines 178-189, route.ts lines 90-99): an
\* entry with its extractor, an inherited value without one, or undefined
SupportedEntry(type) ==
    IF type \in SUPPORTED_TYPES THEN "entry"
    ELSE IF type \in InheritedKeys THEN "inherited"
    ELSE "undefined"

\* MAX_CHARS (part_003 line 129, route.ts line 55)
MAX_CHARS == 12000

\* the length of a preview (part_003 line 137)
PreviewChars == 480

\* file.name.substring(file.name.lastIndexOf(".")).toLowerCase(): substring
\* takes -1 as 0, so a name without a dot is its own extension
RouteExtension(name) == toLowerCase(SubSeq(name, Max(LastIndexOf(name, "."), 1), Len(name)))

\* matchedType (part_003 lines 171-178): the declared type when it is
\* supported, else FALLBACK_EXTENSIONS[extension]
MatchedType(file) ==
    IF file.type # "" /\ SupportedEntry(file.type) # "undefined" THEN file.type
    ELSE IF RouteExtension(file.name) \in DOMAIN FALLBACK_EXTENSIONS
         THEN FALLBACK_EXTENSIONS[RouteExtension(file.name)]
    ELSE "undefined"

\* SUPPORTED_TYPES[matchedType].extractor(file, buffer) on the files of the
\* model: the decoded content, or the text of the parsed PDF
Extractor(matchedType, file) == file.text

\* extracted.replace(/[\u0000-\u001F\u007F]+/g, " ").trim()  (line 190)
StripControl(extracted) == trim(ReplaceRuns(extracted, ControlChars))

\* if (extracted.length > MAX_CHARS) extracted = extracted.slice(0, MAX_CHARS)
Truncate(extracted) ==
    IF Len(extracted) > MAX_CHARS THEN Slice(extracted, MAX_CHARS) ELSE extracted

\* createPreview (part_003 lines 135-138, route.ts lines 70-73)
createPreview(text) ==
    LET normalized == trim(ReplaceRuns(text, WhiteSpace))
    IN  IF Len(normalized) > PreviewChars
        THEN Slice(normalized, PreviewChars) \o <<ELLIPSIS>>
        ELSE normalized

(***************************************************************************)
(* The remote classifier.  Its reply is [ok, present, content]: whether    *)
(* the HTTP status is a success, whether choices[0].message.content is     *)
(* there, and that content.                                                *)
(***************************************************************************)
EmptyObject == [field \in {} |-> 0]

\* the JSON documents among the texts the model's classifier sends, with the
\* values JSON.parse gives them
JsonDocuments ==
    (<<"{","}">> :> EmptyObject) @@
    (<<"{","\"","l","i","e","P","r","o","b","a","b","i","l","i","t","y","\"",":","1","2","}">> :> [lieProbability |-> 12]) @@
    (<<"{","\"","l","i","e","P","r","o","b","a","b","i","l","i","t","y","\"",":","1","2",",","\"","c","o","n","f","i","d","e","n","c","e","S","c","o","r","e","\"",":","8","0",",","\"","s","u","m","m","a","r","y","\"",":","\"","o","k","\"",",","\"","c","u","e","s","\"",":","[","]",",","\"","e","v","i","d","e","n","c","e","\"",":","[","]",",","\"","m","e","t","r","i","c","s","\"",":","[","]","}">> :>
        [lieProbability |-> 12, confidenceScore |-> 80, summary |-> <<"o","k">>,
         cues |-> <<>>, evidence |-> <<>>, metrics |-> <<>>])

\* JSON.parse: the value, or a SyntaxError
JSONParse(document) ==
    IF document \in DOMAIN JsonDocuments
    THEN [threw |-> FALSE, value |-> JsonDocuments[document]]
    ELSE [threw |-> TRUE, value |-> EmptyObject]

Replies ==
    { [ok |-> FALSE, present |-> FALSE, content |-> <<>>],
      [ok |-> TRUE, present |-> FALSE, content |-> <<>>],
      [ok |-> TRUE, present |-> TRUE, content |-> <<>>],
      [ok |-> TRUE, present |-> TRUE, content |-> <<"I"," ","c","a","n","n","o","t"," ","c","o","m","p","l","y",".">>],
      [ok |-> TRUE, present |-> TRUE, content |-> <<"{","}">>],
      [ok |-> TRUE, present |-> TRUE, content |-> <<BACKTICK,BACKTICK,BACKTICK,"j","s","o","n","\n","{","}","\n",BACKTICK,BACKTICK,BACKTICK>>],
      [ok |-> TRUE, present |-> TRUE, content |-> <<"S","u","r","e",":"," ","{","\"","l","i","e","P","r","o","b","a","b","i","l","i","t","y","\"",":","1","2","}","!">>],
      [ok |-> TRUE, present |-> TRUE,
       content |-> <<"{","\"","l","i","e","P","r","o","b","a","b","i","l","i","t","y","\"",":","1","2",",","\"","c","o","n","f","i","d","e","n","c","e","S","c","o","r","e","\"",":","8","0",",","\"","s","u","m","m","a","r","y","\"",":","\"","o","k","\"",",","\"","c","u","e","s","\"",":","[","]",",","\"","e","v","i","d","e","n","c","e","\"",":","[","]",",","\"","m","e","t","r","i","c","s","\"",":","[","]","}">>] }

Fence == <<BACKTICK, BACKTICK, BACKTICK>>

\* the place after an opening fence at i and its optional label: (?:json)?
AfterLabel(s, i) ==
    IF OccursAt(toLowerCase(s), <<"j", "s", "o", "n">>, i + 3) THEN i + 7 ELSE i + 3

\* the place after the white space that follows the label: \s*
BodyStart(s, i) ==
    Minimum({j \in AfterLabel(s, i)..(Len(s) + 1) : j = Len(s) + 1 \/ ~IsSpace(s[j])})

\* the closing fences the opening fence at i can pair with
Closing(s, i) == {j \in BodyStart(s, i)..Len(s) : OccursAt(s, Fence, j)}

\* the opening fences that have a closing fence
Fenced(s) == {i \in 1..Len(s) : OccursAt(s, Fence, i) /\ Closing(s, i) # {}}

\* group 1 of trimmed.match(/```(?:json)?\s*([\s\S]*?)```/i); empty when there
\* is no match
FenceBody(s) ==
    IF Fenced(s) = {} THEN <<>>
    ELSE SubSeq(s, BodyStart(s, Minimum(Fenced(s))),
                Minimum(Closing(s, Minimum(Fenced(s)))) - 1)

\* lines 146-151: from the first "{" to the last "}", or the whole text
BraceSlice(s) ==
    IF IndexOf(s, "{") # 0 /\ LastIndexOf(s, "}") # 0 /\ LastIndexOf(s, "}") > IndexOf(s, "{")
    THEN SubSeq(s, IndexOf(s, "{"), LastIndexOf(s, "}"))
    ELSE s

\* extractJsonContent (part_003 lines 140-152)
extractJsonContent(content) ==
    LET trimmed == trim(content)
    IN  IF FenceBody(trimmed) # <<>> THEN trim(FenceBody(trimmed)) ELSE BraceSlice(trimmed)

(***************************************************************************)
(* POST /api/analyze.  A form is [file, locale]; what the handler does is  *)
(* [response, call]: the response it sends and the call of the engine it   *)
(* made, if any.                                                           *)
(***************************************************************************)
\* what clients other than the page upload as well
Uploads ==
    Files \cup
    { [name |-> <<"l","o","g",".","c","s","v">>, type |-> "text/csv",
       text |-> <<"H","o","n","e","s","t","l","y",";"," ","i","t"," ","c","o","u","l","d"," ","b","e"," ","1","0","0","%",".">>],
      [name |-> <<"R","E","A","D","M","E">>, type |-> "",
       text |-> <<"m","a","y","b","e">>],
      [name |-> <<"r","a","w",".","b","i","n">>, type |-> "constructor",
       text |-> <<"m","a","y","b","e">>] }

\* the forms posted; the locale field is a tag, or is missing
Forms == [file : Uploads \cup {NoFile}, locale : {"ko", "en", "fr", "null"}]

NoResponse == [status |-> 0, body |-> [success |-> FALSE, error |-> "none"]]

\* failure (part_003 lines 154-155, route.ts lines 75-76)
failure(message, code) == [status |-> code, body |-> [success |-> FALSE, error |-> message]]

\* no form has been posted yet
NoRequest == [file |-> NoFile, locale |-> "none"]

\* the remote classifier has not been called
NoPrompt == [sent |-> FALSE, transcript |-> <<>>]

Served(sent, call) == [response |-> sent, call |-> call, prompt |-> NoPrompt]

\* fetch of the chat completion (part_003 lines 209-235, route.ts lines
\* 118-135): the prompt built from the transcript is sent, then the handler
\* goes on to its response
Fetched(transcript, served) ==
    [served EXCEPT !.prompt = [sent |-> TRUE, transcript |-> transcript]]

\* lines 162-165: the locale of the request
RequestLocale(requestedLocale) ==
    IF requestedLocale = "en" \/ requestedLocale = "ko" THEN requestedLocale ELSE "ko"

\* lines 259-266: the engine's result sent as the analysis; an exception of the
\* engine leaves the handler
HeuristicResponse(extracted, requestLocale, outcome) ==
    IF outcome.status = "threw"
    THEN Served(failure("unhandled exception", 500),
                CallRecord(extracted, requestLocale, outcome))
    ELSE Served([status |-> 200,
                 body |-> [success |-> TRUE, analysis |-> outcome.value,
                           preview |-> createPreview(extracted),
                           source |-> "heuristic", reason |-> "not JSON"]],
                CallRecord(extracted, requestLocale, outcome))

\* lines 254-274: the engine's result when JSON.parse threw, else the parsed
\* content sent as the analysis
AfterParse(extracted, requestLocale, parsed) ==
    IF parsed.threw
    THEN HeuristicResponse(extracted, requestLocale,
                           analyzeTranscriptFallback(extracted, requestLocale))
    ELSE Served([status |-> 200,
                 body |-> [success |-> TRUE, analysis |-> parsed.value,
                           preview |-> createPreview(extracted), source |-> "model"]],
                NoCall)

\* lines 200-274
CallModel(extracted, requestLocale, token, reply) ==
    IF token = "undefined" THEN Served(failure("token missing", 500), NoCall)
    ELSE Fetched(extracted,
           IF ~reply.ok THEN Served(failure("call failed", 502), NoCall)
           ELSE IF ~reply.present \/ reply.content = <<>>
                THEN Served(failure("no content", 502), NoCall)
           ELSE AfterParse(extracted, requestLocale,
                           JSONParse(extractJsonContent(reply.content))))

\* POST of the unnamed revision (part_003 lines 157-275)
POST(form, token, reply) ==
    IF form.file = NoFile THEN Served(failure("no file", 400), NoCall)
    ELSE IF SupportedEntry(MatchedType(form.file)) = "undefined"
         THEN Served(failure("unsupported type", 400), NoCall)
    ELSE IF SupportedEntry(MatchedType(form.file)) = "inherited"
         THEN Served(failure("unhandled exception", 500), NoCall)
    ELSE LET extracted == StripControl(Extractor(MatchedType(form.file), form.file))
         IN  IF extracted = <<>> THEN Served(failure("no text", 400), NoCall)
             ELSE CallModel(Truncate(extracted), RequestLocale(form.locale), token, reply)

\* route.ts lines 152-164: the parsed content sent as the analysis, or a
\* failure when the content is not JSON
StrictAfterParse(extracted, parsed) ==
    IF parsed.threw THEN Served(failure("not JSON", 502), NoCall)
    ELSE Served([status |-> 200,
                 body |-> [success |-> TRUE, analysis |-> parsed.value,
                           preview |-> createPreview(extracted)]],
                NoCall)

\* route.ts lines 110-164
StrictCallModel(extracted, token, reply) ==
    IF token = "undefined" THEN Served(failure("token missing", 500), NoCall)
    ELSE Fetched(extracted,
           IF ~reply.ok THEN Served(failure("call failed", 502), NoCall)
           ELSE IF ~reply.present \/ reply.content = <<>>
                THEN Served(failure("no content", 502), NoCall)
           ELSE StrictAfterParse(extracted, JSONParse(reply.content)))

\* POST of app/api/analyze/route.ts (lines 78-165)
StrictPOST(form, token, reply) ==
    IF form.file = NoFile THEN Served(failure("no file", 400), NoCall)
    ELSE IF SupportedEntry(MatchedType(form.file)) = "undefined"
         THEN Served(failure("unsupported type", 400), NoCall)
    ELSE IF SupportedEntry(MatchedType(form.file)) = "inherited"
         THEN Served(failure("unhandled exception", 500), NoCall)
    ELSE LET extracted == StripControl(Extractor(MatchedType(form.file), form.file))
         IN  IF extracted = <<>> THEN Served(failure("no text", 400), NoCall)
             ELSE StrictCallModel(Truncate(extracted), token, reply)

\* the route of the revision that is served
Route(served, form, token, reply) ==
    IF served = "unnamed" THEN POST(form, token, reply)
    ELSE StrictPOST(form, token, reply)

(***************************************************************************)
(* The page.  Of its state the model keeps what decides the course of an   *)
(* analysis and what is shown of it; the progress bar, the previews and    *)
(* the live feed are left out.                                             *)
(***************************************************************************)
\* allowedExtensions (page.tsx line 161, part_002 line 136)
allowedExtensions == {<<".","t","x","t">>, <<".","j","s","o","n">>, <<".","c","s","v">>, <<".","h","t","m","l">>, <<".","p","d","f">>}

\* TOKEN_MAX (page.tsx line 163, part_002 line 138)
TOKEN_MAX == 3

\* getExtension (page.tsx lines 942-945, part_002 lines 542-545)
getExtension(fileName) ==
    IF LastIndexOf(fileName, ".") = 0 THEN <<>>
    ELSE toLowerCase(SubSeq(fileName, LastIndexOf(fileName, "."), Len(fileName)))

\* no analysis: the null of useState<AnalysisResult | null>
Null == [isNull |-> TRUE]

NoError == [key |-> "null", detail |-> ""]

Status(name, detail) == [key |-> name, detail |-> detail]

\* a || b on strings
OrElse(a, b) == IF a # <<>> THEN a ELSE b

\* extractPdfText (page.tsx lines 753-777) on a one-page document: the page's
\* text and a line end, trimmed; the empty string when pdf.js fails
extractPdfText(file, parsed) == IF parsed THEN trim(file.text \o <<"\n">>) ELSE <<>>

\* extractTextFromFile (page.tsx lines 779-799) on the files of the model; a
\* PDF without text gets `[PDF:${file.name}] Secure ingestion placeholder.`
extractTextFromFile(file, cachedText, parsed) ==
    IF getExtension(file.name) = <<".","p","d","f">>
    THEN OrElse(extractPdfText(file, parsed),
                <<"[","P","D","F",":">> \o file.name \o <<"]"," ","S","e","c","u","r","e"," ","i","n","g","e","s","t","i","o","n"," ","p","l","a","c","e","h","o","l","d","e","r",".">>)
    ELSE OrElse(cachedText, file.text)

(***************************************************************************)
(* simulateEnsemble (page.tsx lines 808-904).  Its numbers are rationals   *)
(* here: a sum over 100 * wordCount for the adjustment of lieProbability,  *)
(* tenths for the drift.  The texts it writes are copy records as the      *)
(* engine's are; a text with a suffix keeps the text it extends.           *)
(***************************************************************************)
\* clampScore (page.tsx lines 805-806) of the rational num / den
clampScore(num, den, min, max) == Max(min, Min(max, MathRound(num, den)))

\* the number of maximal runs of at least least characters of chars in text:
\* (text.match(/[A-Z]{4,}/g) ?? []).length and (text.match(/\d+/g) ?? []).length
Runs(text, chars, least) ==
    Cardinality({i \in 1..Len(text) :
                    /\ i = 1 \/ text[i - 1] \notin chars
                    /\ i + least - 1 <= Len(text)
                    /\ \A k \in i..(i + least - 1) : text[k] \in chars})

\* new Set(words.map((word) => word.toLowerCase())).size
UniqueTerms(words) == Cardinality({toLowerCase(words[k]) : k \in 1..Len(words)})

\* (text.match(/\b(?:no|not|never|없다|아니)\b/gi) ?? []).length; the texts of
\* the model hold no Korean word
NegationBursts(text) ==
    KeywordCount(toLowerCase(text), <<"n","o">>)
    + KeywordCount(toLowerCase(text), <<"n","o","t">>)
    + KeywordCount(toLowerCase(text), <<"n","e","v","e","r">>)

\* lines 814-821: what simulateEnsemble counts in the text
EnsembleCounts(text) ==
    [wordCount       |-> Max(Len(WordsOf(text)), 1),
     uniqueTerms     |-> UniqueTerms(WordsOf(text)),
     emphasisTokens  |-> Cardinality({i \in 1..Len(text) : text[i] \in {"!", "?"}}),
     capitalBursts   |-> Runs(text, UpperChars, 4),
     negationBursts  |-> NegationBursts(text),
     numericMentions |-> Runs(text, DigitChars, 1)]

\* /coverage|커버/i.test(metric.label) on the labels of the copy table
\* (part_004 lines 118-122 and 147-151): 'Sentence Coverage' alone
LabelNamesCoverage(label) == label.lang = "en" /\ label.key = "metrics.coverageLabel"

RECURSIVE ParseDigits(_)
ParseDigits(digits) ==
    IF digits = <<>> THEN 0
    ELSE 10 * ParseDigits(SubSeq(digits, 1, Len(digits) - 1))
         + (CHOOSE d \in 0..9 : DigitChar(d) = digits[Len(digits)])

\* extractPercent (page.tsx lines 589-593) ?? 0 on a value `${n}%` as the engine
\* writes it: the digits before the sign
extractPercent(value) ==
    IF IndexOf(value, "%") = 0 THEN 0
    ELSE ParseDigits(SubSeq(value,
                            Minimum({i \in 1..IndexOf(value, "%") :
                                        \A k \in i..(IndexOf(value, "%") - 1) :
                                            value[k] \in DigitChars}),
                            IndexOf(value, "%") - 1))

\* lines 822-823: coveragePercent
CoveragePercent(metrics) ==
    IF \E k \in 1..Len(metrics) : LabelNamesCoverage(metrics[k].label)
    THEN extractPercent(metrics[Minimum({k \in 1..Len(metrics) :
                                            LabelNamesCoverage(metrics[k].label)})].value.args[1])
    ELSE 0

\* ensembleDrift (line 825), in tenths
DriftTenths(counts) ==
    19 * (counts.negationBursts + counts.capitalBursts) + 12 * counts.numericMentions

\* richnessDelta (line 826), over 100 * wordCount
RichnessNumerator(counts) == 55 * (42 * counts.wordCount - 100 * counts.uniqueTerms)

\* emphasisDelta (line 827), over 100 * wordCount
EmphasisNumerator(counts) == 320000 * counts.emphasisTokens

\* adjustedLie (lines 829-831)
AdjustedLie(base, counts) ==
    clampScore(base.lieProbability
               + MathRound(RichnessNumerator(counts) + EmphasisNumerator(counts)
                           + 5 * counts.wordCount * DriftTenths(counts),
                           100 * counts.wordCount),
               1, 5, 96)

\* agreement (line 832)
Agreement(base, adjustedLie) ==
    clampScore(1000 - 6 * Abs(adjustedLie - base.confidenceScore), 10, 45, 97)

\* confidenceBlend (line 833)
ConfidenceBlend(base, agreement) ==
    clampScore(65 * base.confidenceScore + 35 * agreement, 100, 40, 95)

\* `${n}` of an integer
SignedString(n) == IF n < 0 THEN <<"-">> \o IntToString(-n) ELSE IntToString(n)

\* `${text}${suffix}`, the suffix being a text of the page's copy
Suffixed(text, lang, key, args) == [lang |-> lang, key |-> key, args |-> args, base |-> text]

\* formatted (line 841) of the rational num / den
FormatDelta(num, den) ==
    IF num = 0 THEN <<"Δ"," ","±","0","b","p">>
    ELSE (IF num > 0 THEN <<"+">> ELSE <<>>) \o SignedString(MathRound(num, den))
         \o <<"b","p">>

\* detail.includes('Δ') || detail.includes('delta') on a text of the engine:
\* its copy has neither, the signals it interpolates may
MentionsDelta(detail) ==
    \E k \in 1..Len(detail.args) :
        includes(detail.args[k], <<"Δ">>) \/ includes(detail.args[k], <<"d","e","l","t","a">>)

\* enrichDetail (lines 840-844)
enrichDetail(detail, num, den, locale) ==
    IF MentionsDelta(detail) THEN detail
    ELSE Suffixed(detail, locale, "ensemble.delta", <<FormatDelta(num, den)>>)

\* the tests of lines 847-855 on the labels of the copy table (part_004 lines
\* 108-116 and 137-145): the hedging, pressure and negation labels match
\* their pattern in both languages, the conflict label matches none
EnrichCue(cue, counts, locale) ==
    IF cue.label.key = "hedgingLabel"
    THEN [cue EXCEPT !.detail = enrichDetail(cue.detail, RichnessNumerator(counts),
                                             100 * counts.wordCount, locale)]
    ELSE IF cue.label.key = "pressureLabel"
    THEN [cue EXCEPT !.detail = enrichDetail(cue.detail, EmphasisNumerator(counts),
                                             1000 * counts.wordCount, locale)]
    ELSE IF cue.label.key = "negationLabel"
    THEN [cue EXCEPT !.detail = enrichDetail(cue.detail, DriftTenths(counts), 10, locale)]
    ELSE cue

\* agreementMetric and driftMetric (lines 859-878)
EnsembleMetrics(agreement, driftMetricValue, locale) ==
    << [label |-> CopyText(locale, "ensemble.agreementLabel"),
        value |-> Verbatim(IntToString(agreement) \o <<"%">>),
        hint  |-> CopyText(locale, "ensemble.agreementHint")],
       [label |-> CopyText(locale, "ensemble.driftLabel"),
        value |-> Verbatim(IntToString(driftMetricValue) \o <<"%">>),
        hint  |-> CopyText(locale, "ensemble.driftHint")] >>

\* lines 880-885: the engine's metrics follow, but for labels already there
MergeMetrics(first, metrics) ==
    first \o Filter(metrics,
                    [k \in 1..Len(metrics) |->
                        /\ \A j \in 1..Len(first) : first[j].label # metrics[k].label
                        /\ \A j \in 1..(k - 1) : metrics[j].label # metrics[k].label])

\* item.rationale.includes('앙상블') || item.rationale.includes('ensemble') on a
\* rationale of the engine: its copy has neither word, and of the signals it
\* interpolates those of the model can hold the second only
MentionsEnsemble(rationale) ==
    /\ rationale.key = "evidence.rationale"
    /\ \E k \in 1..Len(rationale.args) :
          includes(rationale.args[k].signal, <<"e","n","s","e","m","b","l","e">>)

\* lines 887-895
EnsembleEvidence(evidence, locale) ==
    [k \in 1..Len(Slice(evidence, 4)) |->
        [quote     |-> evidence[k].quote,
         rationale |-> IF MentionsEnsemble(evidence[k].rationale)
                       THEN evidence[k].rationale
                       ELSE Suffixed(evidence[k].rationale, locale, "ensemble.checked",
                                     <<>>)]]

\* the summary of lines 836-838
EnsembleSummary(base, adjustedLie, confidenceBlend, locale) ==
    CopyTemplate(locale, "ensemble.summary",
                 << IF Len(base.cues) >= 1 THEN base.cues[1].value.args[1] ELSE <<"0","%">>,
                    IF Len(base.cues) >= 2 THEN base.cues[2].value.args[1] ELSE <<"0","%">>,
                    IntToString(Min(Len(base.evidence), 3)),
                    IntToString(adjustedLie), IntToString(confidenceBlend) >>)

\* the object returned (lines 897-905)
Blended(base, counts, locale, adjustedLie, agreement) ==
    [base EXCEPT
        !.lieProbability  = adjustedLie,
        !.confidenceScore = ConfidenceBlend(base, agreement),
        !.summary  = EnsembleSummary(base, adjustedLie, ConfidenceBlend(base, agreement),
                                     locale),
        !.cues     = [k \in 1..Len(base.cues) |-> EnrichCue(base.cues[k], counts, locale)],
        !.metrics  = MergeMetrics(
                         EnsembleMetrics(agreement,
                                         clampScore(2 * DriftTenths(counts)
                                                    + 10 * CoveragePercent(base.metrics),
                                                    20, 8, 98),
                                         locale),
                         base.metrics),
        !.evidence = EnsembleEvidence(base.evidence, locale)]

Adjusted(base, counts, locale, adjustedLie) ==
    Blended(base, counts, locale, adjustedLie, Agreement(base, adjustedLie))

\* simulateEnsemble (page.tsx lines 808-904)
simulateEnsemble(base, text, pageLanguage) ==
    Adjusted(base, EnsembleCounts(text), pageLanguage,
             AdjustedLie(base, EnsembleCounts(text)))

\* a run of handleAnalyze: where it stands and what its closure holds
Idle ==
    [pc |-> "idle", file |-> NoFile, fileContent |-> <<>>, locale |-> "ko",
     text |-> <<>>, response |-> NoResponse, source |-> "null", reason |-> ""]

\* what an effect or a handler leaves to show, and the engine call it made
Shown(value, call) == [analysis |-> value, call |-> call]

Recomputed(content, pageLanguage, outcome) ==
    Shown(outcome.value, CallRecord(content, pageLanguage, outcome))

Enriched(text, pageLanguage, outcome) ==
    Shown(simulateEnsemble(outcome.value, text, pageLanguage),
          CallRecord(text, pageLanguage, outcome))

\* the effect of part_002 lines 691-695
FallbackEffect(source, content, pageLanguage, shown, last) ==
    IF source = "fallback" /\ trim(content) # <<>>
    THEN Recomputed(content, pageLanguage, analyzeTranscriptFallback(content, pageLanguage))
    ELSE Shown(shown, last)

\* the effect of page.tsx lines 1143-1147
EnsembleEffect(text, pageLanguage, shown, last) ==
    IF text # <<>>
    THEN Enriched(text, pageLanguage, analyzeTranscriptFallback(text, pageLanguage))
    ELSE Shown(shown, last)

\* the effect of the revision that is served, run when one of its dependencies
\* changed
Effects(served, changed, source, content, text, pageLanguage, shown, last) ==
    IF ~changed THEN Shown(shown, last)
    ELSE IF served = "unnamed"
         THEN FallbackEffect(source, content, pageLanguage, shown, last)
         ELSE EnsembleEffect(text, pageLanguage, shown, last)

\* the variables of the engine's callers that the application leaves alone
\* no build is served yet
InitSite ==
    /\ revision = "none"
    /\ apiKey = "undefined"
    /\ response = NoResponse
    /\ request = NoRequest
    /\ prompt = NoPrompt

\* the page as useState initialises it (page.tsx lines 990-1026, part_002
\* lines 590-604), with nothing in local storage
InitPage ==
    /\ pageLocale = "ko"
    /\ selectedFile = NoFile
    /\ fileContent = <<>>
    /\ analysisText = <<>>
    /\ analysis = Null
    /\ analysisSource = "null"
    /\ status = Status("idle", "")
    /\ errorState = NoError
    /\ isAnalyzing = FALSE
    /\ tokens = TOKEN_MAX
    /\ lastRefill = 0
    /\ now = 0
    /\ reading = {}
    /\ run = Idle
    /\ gestures = 0

\* the module-level keyword arrays as the source initialises them
InitTables ==
    /\ hedgingKeywords =
         << <<"m","a","y","b","e">>,
            <<"p","e","r","h","a","p","s">>,
            <<"p","o","s","s","i","b","l","y">>,
            <<"m","i","g","h","t">>,
            <<"g","u","e","s","s">>,
            <<"a","r","o","u","n","d">>,
            <<"r","o","u","g","h","l","y">>,
            <<"s","e","e","m","s">>,
            <<"k","i","n","d"," ","o","f">>,
            <<"s","o","r","t"," ","o","f">>,
            <<"p","r","o","b","a","b","l","y">>,
            <<"i"," ","t","h","i","n","k">>,
            <<"i"," ","b","e","l","i","e","v","e">>,
            <<"c","o","u","l","d"," ","b","e">> >>
    /\ pressureKeywords =
         << <<"h","o","n","e","s","t","l","y">>,
            <<"t","r","u","s","t"," ","m","e">>,
            <<"b","e","l","i","e","v","e"," ","m","e">>,
            <<"t","r","u","t","h">>,
            <<"s","w","e","a","r">>,
            <<"d","e","f","i","n","i","t","e","l","y">>,
            <<"a","b","s","o","l","u","t","e","l","y">>,
            <<"n","e","v","e","r">>,
            <<"a","l","w","a","y","s">>,
            <<"p","r","o","m","i","s","e">>,
            <<"1","0","0","%">> >>
    /\ contradictionJoiners =
         << <<"b","u","t">>,
            <<"h","o","w","e","v","e","r">>,
            <<"y","e","t">>,
            <<"t","h","o","u","g","h">>,
            <<"n","e","v","e","r","t","h","e","l","e","s","s">> >>
    /\ negationKeywords =
         << <<"n","o","t">>,
            <<"d","i","d","n","'","t">>,
            <<"d","o","n","'","t">>,
            <<"n","o">>,
            <<"n","e","v","e","r">> >>

Init ==
    /\ InitTables
    /\ raw = <<>>
    /\ typed = 0
    /\ result = NoCall
    /\ probe = NoCall
    /\ sample = NoSample
    /\ InitSite
    /\ InitPage

\* the caller appends one more piece to the transcript it is assembling
Type(piece) ==
    /\ result.status = "none"
    /\ typed < MaxPieces
    /\ raw' = raw \o piece
    /\ typed' = typed + 1
    /\ UNCHANGED <<tables, result, probe, sample, site, page>>

\* a call that also consumes the head of a keyword array (a shift() on the
\* module-level array)
AnalyzeConsuming(localeArg) ==
    /\ result' = CallRecord(raw, localeArg, analyzeTranscriptFallback(raw, localeArg))
    /\ hedgingKeywords' = Tail(hedgingKeywords)
    /\ UNCHANGED <<pressureKeywords, contradictionJoiners, negationKeywords, raw,
                   typed, probe, sample, site, page>>

\* one call analyzeTranscriptFallback(raw, localeArg); the keyword arrays are
\* only read (map, filter, reduce and the spread at line 249 copy; the sorts at
\* lines 183 and 255 sort those copies)
Analyze(localeArg) ==
    /\ result' = CallRecord(raw, localeArg, analyzeTranscriptFallback(raw, localeArg))
    /\ UNCHANGED <<tables, raw, typed, probe, sample, site, page>>

\* the caller analyses the transcript it has assembled
AnalyzeTyped(localeArg) ==
    /\ result.status = "none"
    /\ Analyze(localeArg)

Next ==
    \/ \E piece \in Vocabulary : Type(piece)
    \/ \E localeArg \in LocaleArgs : AnalyzeTyped(localeArg)

Spec == Init /\ [][Next]_vars

(***************************************************************************)
(* Transcripts that consist of one hedging keyword repeated.               *)
(***************************************************************************)
\* keyword followed by a blank, n times
RECURSIVE Repeated(_, _)
Repeated(keyword, n) ==
    IF n = 0 THEN <<>> ELSE Repeated(keyword, n - 1) \o keyword \o <<" ">>

RepeatKeyword(keyword) ==
    /\ result.status = "none"
    /\ typed < MaxRep
    /\ raw = Repeated(keyword, typed)
    /\ raw' = raw \o keyword \o <<" ">>
    /\ typed' = typed + 1
    /\ UNCHANGED <<tables, result, probe, sample, site, page>>

NextRepeat ==
    \/ \E k \in 1..Len(hedgingKeywords) : RepeatKeyword(hedgingKeywords[k])
    \/ \E localeArg \in LocaleArgs : AnalyzeTyped(localeArg)

SpecRepeat == Init /\ [][NextRepeat]_vars

(***************************************************************************)
(* The engine serving a stream of requests: calls follow one another in    *)
(* any order, and an observer keeps one earlier outcome to compare.        *)
(***************************************************************************)
CallTexts ==
    { <<>>,
      <<"m","a","y","b","e"," ">>,
      <<"p","e","r","h","a","p","s"," ","p","e","r","h","a","p","s"," ","m","a","y","b","e">>,
      <<"T","r","u","s","t"," ","m","e",","," ","I"," ","t","h","i","n","k"," ","s","o","!"," ","H","o","n","e","s","t","l","y","?">>,
      <<"I"," ","d","i","d","n","'","t"," ","t","a","k","e"," ","i","t",","," ","b","u","t"," ","I"," ","d","i","d"," ","r","e","t","u","r","n"," ","l","a","t","e","r",".">> }

\* the next request arrives with its transcript
Request(text) ==
    /\ raw' = text
    /\ UNCHANGED <<tables, typed, result, probe, sample, site, page>>

\* the observer takes the outcome of the last call
Remember ==
    /\ result.status # "none"
    /\ probe' = result
    /\ result' = NoCall
    /\ UNCHANGED <<tables, raw, typed, sample, site, page>>

NextCalls ==
    \/ \E text \in CallTexts : Request(text)
    \/ \E localeArg \in LocaleArgs : Analyze(localeArg)
    \/ Remember

SpecCalls == Init /\ [][NextCalls]_vars

(***************************************************************************)
(* The confidence synthesis (lines 268-273) and the cue risks (lines 284,  *)
(* 293, 302) on word and hit counts that are too large to reach by         *)
(* assembling transcripts.                                                 *)
(***************************************************************************)
\* counts of a transcript: no more hits of a list than words
Draw(words, hedgingHits, pressureHits, negationHits) ==
    /\ sample.status = "none"
    /\ typed = 0
    /\ result.status = "none"
    /\ hedgingHits <= words
    /\ pressureHits <= words
    /\ negationHits <= words
    /\ sample' = [NoSample EXCEPT !.status = "drawn", !.words = words,
                                  !.hedgingHits = hedgingHits,
                                  !.pressureHits = pressureHits,
                                  !.negationHits = negationHits]
    /\ UNCHANGED <<tables, raw, typed, result, probe, site, page>>

\* lines 268-273, 284, 293 and 302 applied to the counts
Score ==
    /\ sample.status = "drawn"
    /\ sample' = [sample EXCEPT
                    !.status = "scored",
                    !.confidenceScore = ConfidenceScoreOf(sample.hedgingHits,
                                            sample.pressureHits, sample.words),
                    !.hedgingRisk = HedgingRisk(sample.hedgingHits, Max(sample.words, 1)),
                    !.pressureRisk = PressureRisk(sample.pressureHits, Max(sample.words, 1)),
                    !.negationRisk = NegationRisk(sample.negationHits, Max(sample.words, 1))]
    /\ UNCHANGED <<tables, raw, typed, result, probe, site, page>>

NextScores ==
    \/ \E piece \in Vocabulary : sample.status = "none" /\ Type(piece)
    \/ \E localeArg \in LocaleArgs : sample.status = "none" /\ AnalyzeTyped(localeArg)
    \/ \E words \in 0..MaxWords :
          \E hedgingHits, pressureHits, negationHits \in 0..MaxHits :
              Draw(words, hedgingHits, pressureHits, negationHits)
    \/ Score

SpecScores == Init /\ [][NextScores]_vars

engine == <<tables, raw, typed, probe, sample>>

\* the build is served with its environment
Deploy(served, token) ==
    /\ revision = "none"
    /\ revision' = served
    /\ apiKey' = token
    /\ UNCHANGED <<engine, result, response, request, prompt, page>>

\* onClick={() => setLocale(option)}, and the effect that follows; the user's
\* gestures on the page are counted, a session has MaxGestures of them at most
SetLocale(option) ==
    /\ revision # "none"
    /\ gestures < MaxGestures
    /\ gestures' = gestures + 1
    /\ option # pageLocale
    /\ pageLocale' = option
    /\ \E effect \in {Effects(revision, TRUE, analysisSource, fileContent, analysisText,
                              option, analysis, result)} :
          /\ analysis' = effect.analysis
          /\ result' = effect.call
    /\ UNCHANGED <<engine, site, selectedFile, fileContent, analysisText,
                   analysisSource, status, errorState, isAnalyzing, tokens, clock, reading, run>>

\* handleFileChange (page.tsx lines 1163-1212, part_002 lines 726-776) up to
\* reader.readAsText
handleFileChange(file) ==
    /\ revision # "none"
    /\ gestures < MaxGestures
    /\ gestures' = gestures + 1
    /\ analysis' = Null
    /\ analysisSource' = "null"
    /\ analysisText' = <<>>
    /\ status' = Status("idle", "")
    /\ fileContent' = <<>>
    /\ IF file = NoFile
       THEN /\ errorState' = NoError
            /\ selectedFile' = NoFile
            /\ UNCHANGED reading
       ELSE IF getExtension(file.name) \notin allowedExtensions
       THEN /\ errorState' = [key |-> "unsupportedFormat", detail |-> ""]
            /\ selectedFile' = NoFile
            /\ UNCHANGED reading
       ELSE /\ errorState' = NoError
            /\ selectedFile' = file
            /\ reading' = IF getExtension(file.name) = <<".","p","d","f">> THEN reading
                          ELSE reading \cup {file}
    /\ UNCHANGED <<engine, result, site, pageLocale, isAnalyzing, tokens, clock, run>>

\* reader.onload (page.tsx lines 1196-1204, part_002 lines 760-768), and the
\* effect that follows
ReaderLoad(file) ==
    /\ file \in reading
    /\ reading' = reading \ {file}
    /\ fileContent' = file.text
    /\ \E effect \in {Effects(revision, revision = "unnamed" /\ file.text # fileContent,
                              analysisSource, file.text, analysisText, pageLocale,
                              analysis, result)} :
          /\ analysis' = effect.analysis
          /\ result' = effect.call
    /\ UNCHANGED <<engine, gestures, site, pageLocale, selectedFile, analysisText, analysisSource,
                   status, errorState, isAnalyzing, tokens, clock, run>>

(***************************************************************************)
(* The token bucket.  Times are in milliseconds.  A value handed to        *)
(* reviveTokenState is [kind, halves]: a finite number, given in halves so *)
(* that a stored 2.5 can be told from 2, or a value Number.isFinite        *)
(* rejects (Infinity, NaN, a string).  What JSON.parse finds in local      *)
(* storage may also lack a field.                                          *)
(***************************************************************************)
JsNumber(halves) == [kind |-> "number", halves |-> halves]

Whole(n) == JsNumber(2 * n)

NotFinite == [kind |-> "not finite", halves |-> 0]

Missing == [kind |-> "missing", halves |-> 0]

\* Number.isFinite
NumberIsFinite(value) == value.kind = "number"

\* Math.floor
MathFloor(value) == value.halves \div 2

\* TOKEN_INTERVAL_MS (page.tsx line 164, part_002 line 139)
TOKEN_INTERVAL_MS(served) == IF served = "unnamed" THEN 30 * 60 * 1000 ELSE 5 * 60 * 1000

\* the same without the two clamps
FlooredTokens(tokensGiven) ==
    IF NumberIsFinite(tokensGiven) THEN MathFloor(tokensGiven) ELSE TOKEN_MAX

\* normalizedTokens before the refill (page.tsx lines 170-174, part_002 lines
\* 145-149)
NormalizedTokens(tokensGiven) ==
    Max(0, Min(TOKEN_MAX, IF NumberIsFinite(tokensGiven) THEN MathFloor(tokensGiven)
                          ELSE TOKEN_MAX))

\* normalizedLastRefill before the refill (page.tsx line 171); the stored
\* times of the model are whole milliseconds
NormalizedLastRefill(lastRefillGiven, time) ==
    IF NumberIsFinite(lastRefillGiven) THEN MathFloor(lastRefillGiven) ELSE time

\* page.tsx lines 176-186: the refill of a bucket that is not full
Refilled(served, held, since, time) ==
    IF held < TOKEN_MAX /\ time - since >= TOKEN_INTERVAL_MS(served)
    THEN [tokens |-> Min(TOKEN_MAX, held + (time - since) \div TOKEN_INTERVAL_MS(served)),
          lastRefill |->
              IF Min(TOKEN_MAX, held + (time - since) \div TOKEN_INTERVAL_MS(served)) = TOKEN_MAX
              THEN time
              ELSE since + ((time - since) \div TOKEN_INTERVAL_MS(served))
                           * TOKEN_INTERVAL_MS(served)]
    ELSE [tokens |-> held, lastRefill |-> since]

\* reviveTokenState (page.tsx lines 168-198, part_002 lines 143-173) at the
\* time Date.now() returns; nextReadyInMs, which only the display reads, is
\* left out
reviveTokenState(served, tokensGiven, lastRefillGiven, time) ==
    Refilled(served, NormalizedTokens(tokensGiven),
             NormalizedLastRefill(lastRefillGiven, time), time)

\* a ?? b
Coalesce(value, default) == IF value.kind = "missing" THEN default ELSE value

\* what local storage holds under TOKEN_STORAGE_KEY: nothing, a text that
\* JSON.parse rejects or that parses to null, or an object
StoredObject(tokensStored, lastRefillStored) ==
    [kind |-> "object", tokens |-> tokensStored, lastRefill |-> lastRefillStored]

NothingStored == [kind |-> "absent", tokens |-> Missing, lastRefill |-> Missing]

Unreadable == [kind |-> "unreadable", tokens |-> Missing, lastRefill |-> Missing]

\* the initialiser of tokenState (page.tsx lines 1004-1026, part_002 lines
\* 604-625)
InitialTokenState(served, saved, time) ==
    IF saved.kind = "object"
    THEN reviveTokenState(served, Coalesce(saved.tokens, Whole(TOKEN_MAX)),
                          Coalesce(saved.lastRefill, Whole(time)), time)
    ELSE [tokens |-> TOKEN_MAX, lastRefill |-> time]

\* consumeToken (page.tsx lines 1214-1219, part_002 lines 778-783)
consumeToken(served, current, time) ==
    IF current.tokens <= 0 THEN current
    ELSE reviveTokenState(served, Whole(current.tokens - 1), Whole(time), time)

\* handleAnalyze up to its first await (page.tsx lines 1221-1239, part_002
\* lines 785-810); the button is disabled while a run is under way, without a
\* file and without a token (page.tsx line 1403, part_002 line 980)
handleAnalyze ==
    /\ revision # "none"
    /\ gestures < MaxGestures
    /\ gestures' = gestures + 1
    /\ ~isAnalyzing
    /\ selectedFile # NoFile
    /\ tokens > 0
    /\ errorState' = NoError
    /\ isAnalyzing' = TRUE
    /\ status' = Status("phase1", "")
    /\ \E spent \in {consumeToken(revision, [tokens |-> tokens, lastRefill |-> lastRefill],
                                  now)} :
          /\ tokens' = spent.tokens
          /\ lastRefill' = spent.lastRefill
    /\ run' = [Idle EXCEPT !.pc = IF revision = "unnamed" THEN "fetching" ELSE "extracting",
                           !.file = selectedFile, !.fileContent = fileContent,
                           !.locale = pageLocale]
    /\ UNCHANGED <<engine, result, site, pageLocale, selectedFile, fileContent,
                   analysisText, analysis, analysisSource, reading, now>>

\* the route answers the page's request
Serve(reply) ==
    /\ run.pc = "fetching"
    /\ \E served \in {Route(revision, [file |-> run.file, locale |-> run.locale],
                            apiKey, reply)} :
          /\ response' = served.response
          /\ request' = [file |-> run.file, locale |-> run.locale]
          /\ prompt' = served.prompt
          /\ run' = [run EXCEPT !.pc = "answered", !.response = served.response]
          /\ result' = IF served.call.status = "none" THEN result ELSE served.call
    /\ UNCHANGED <<engine, gestures, revision, apiKey, pageLocale, selectedFile, fileContent,
                   analysisText, analysis, analysisSource, status, errorState,
                   isAnalyzing, tokens, clock, reading>>

\* a step of handleAnalyze: the state it sets and the engine call it made
Step(shown, source, state, error, analyzing, next, call) ==
    [analysis |-> shown, analysisSource |-> source, status |-> state,
     errorState |-> error, isAnalyzing |-> analyzing, run |-> next, call |-> call]

\* part_002 lines 843-847: the engine on the file content of the closure
CaughtWithContent(content, pageLanguage, message, outcome) ==
    Step(outcome.value, "fallback", Status("fallback", message), NoError, FALSE, Idle,
         CallRecord(content, pageLanguage, outcome))

\* part_002 lines 840-857: the catch block
Caught(closure, message, last) ==
    IF trim(closure.fileContent) # <<>>
    THEN CaughtWithContent(closure.fileContent, closure.locale, message,
                           analyzeTranscriptFallback(closure.fileContent, closure.locale))
    ELSE Step(Null, "null", Status("failure", message),
              [key |-> "analysisUnknown", detail |-> message], FALSE, Idle, last)

\* data.source (part_002 lines 818-819)
SourceFromApi(data) ==
    IF "source" \in DOMAIN data /\ data.source = "heuristic" THEN "fallback" ELSE "api"

\* fallbackReason (part_002 lines 820-825)
FallbackReason(data) == IF "reason" \in DOMAIN data THEN data.reason ELSE "LLM JSON parsing failure"

\* part_002 lines 827-839 up to the timer
Accepted(closure, data, last) ==
    Step(data.analysis, SourceFromApi(data), Status("phase3", ""), NoError, TRUE,
         [closure EXCEPT !.pc = "settling", !.source = SourceFromApi(data),
                         !.reason = FallbackReason(data)],
         last)

\* part_002 lines 812-857
Received(closure, last) ==
    IF closure.response.status \notin 200..299 \/ ~closure.response.body.success
    THEN Caught(closure, closure.response.body.error, last)
    ELSE Accepted(closure, closure.response.body, last)

\* the response reaches handleAnalyze of part_002, and the effect follows
Receive ==
    /\ run.pc = "answered"
    /\ \E step \in {Received(run, result)} :
          /\ analysisSource' = step.analysisSource
          /\ status' = step.status
          /\ errorState' = IF step.status.key = "failure" THEN step.errorState ELSE errorState
          /\ isAnalyzing' = step.isAnalyzing
          /\ run' = step.run
          /\ \E effect \in {Effects(revision, step.analysisSource # analysisSource,
                                    step.analysisSource, fileContent, analysisText,
                                    pageLocale, step.analysis, step.call)} :
                /\ analysis' = effect.analysis
                /\ result' = effect.call
    /\ UNCHANGED <<engine, gestures, site, pageLocale, selectedFile, fileContent, analysisText,
                   tokens, clock, reading>>

\* page.tsx lines 1241-1253 and 1272-1280: the run ends in a failure
Failed(message) ==
    /\ errorState' = [key |-> "analysisUnknown", detail |-> message]
    /\ analysis' = Null
    /\ analysisText' = <<>>
    /\ status' = Status("failure", message)
    /\ isAnalyzing' = FALSE
    /\ run' = Idle

\* extractTextFromFile returns to handleAnalyze of page.tsx (lines 1239-1258)
Extracted(parsed) ==
    /\ run.pc = "extracting"
    /\ \E text \in {extractTextFromFile(run.file, run.fileContent, parsed)} :
          IF trim(text) = <<>>
          THEN /\ Failed("no readable text")
               /\ UNCHANGED fileContent
          ELSE /\ fileContent' = text
               /\ run' = [run EXCEPT !.pc = "delaying", !.text = text]
               /\ UNCHANGED <<errorState, analysis, analysisText, status, isAnalyzing>>
    /\ UNCHANGED <<engine, gestures, result, site, pageLocale, selectedFile, analysisSource,
                   tokens, clock, reading>>

\* the delay is over (page.tsx lines 1258-1271), and the effect follows
Analysed ==
    /\ run.pc = "delaying"
    /\ \E outcome \in {analyzeTranscriptFallback(run.text, run.locale)} :
          IF outcome.status = "threw"
          THEN /\ Failed("exception")
               /\ result' = CallRecord(run.text, run.locale, outcome)
          ELSE /\ status' = Status("phase3", "")
               /\ analysisText' = run.text
               /\ run' = [run EXCEPT !.pc = "settling", !.source = "api"]
               /\ \E effect \in {Effects(revision, run.text # analysisText, analysisSource,
                                         fileContent, run.text, pageLocale,
                                         simulateEnsemble(outcome.value, run.text, run.locale),
                                         CallRecord(run.text, run.locale, outcome))} :
                     /\ analysis' = effect.analysis
                     /\ result' = effect.call
               /\ UNCHANGED <<errorState, isAnalyzing>>
    /\ UNCHANGED <<engine, gestures, site, pageLocale, selectedFile, fileContent, analysisSource,
                   tokens, clock, reading>>

\* the timer of page.tsx lines 1268-1271 and part_002 lines 832-839
Settle ==
    /\ run.pc = "settling"
    /\ isAnalyzing' = FALSE
    /\ status' = IF run.source = "fallback" THEN Status("fallback", run.reason)
                 ELSE Status("done", "")
    /\ run' = Idle
    /\ UNCHANGED <<engine, gestures, result, site, pageLocale, selectedFile, fileContent,
                   analysisText, analysis, analysisSource, errorState, tokens, clock, reading>>

NextApp ==
    \/ \E served \in {"app", "unnamed"} : \E token \in {"undefined", "token"} :
          Deploy(served, token)
    \/ \E option \in Locale : SetLocale(option)
    \/ \E file \in Files \cup {NoFile} : handleFileChange(file)
    \/ \E file \in Files : ReaderLoad(file)
    \/ handleAnalyze
    \/ \E reply \in Replies : Serve(reply)
    \/ Receive
    \/ \E parsed \in BOOLEAN : Extracted(parsed)
    \/ Analysed
    \/ Settle

SpecApp == Init /\ [][NextApp]_vars

(***************************************************************************)
(* The token bucket over time: the page with its clock, the refill timer   *)
(* and reloads of the page.  One file and one answer of the classifier     *)
(* stand for all, the bucket does not depend on them.                      *)
(***************************************************************************)
\* the longest session, in minutes
MaxMinutes == 65

\* time passes
Advance(minutes) ==
    /\ revision # "none"
    /\ now + minutes * 60 * 1000 <= MaxMinutes * 60 * 1000
    /\ now' = now + minutes * 60 * 1000
    /\ UNCHANGED <<engine, result, site, pageLocale, selectedFile, fileContent, analysisText,
                   analysis, analysisSource, status, errorState, isAnalyzing, tokens,
                   lastRefill, reading, run, gestures>>

\* the callback of window.setInterval (page.tsx lines 1086-1102, part_002
\* lines 666-682)
Tick ==
    /\ revision # "none"
    /\ \E updated \in {reviveTokenState(revision, Whole(tokens), Whole(lastRefill), now)} :
          /\ tokens' = updated.tokens
          /\ lastRefill' = updated.lastRefill
    /\ UNCHANGED <<engine, result, site, pageLocale, selectedFile, fileContent, analysisText,
                   analysis, analysisSource, status, errorState, isAnalyzing, now,
                   reading, run, gestures>>

\* what the effect of page.tsx lines 1104-1110 wrote last
Written == StoredObject(Whole(tokens), Whole(lastRefill))

\* what else the page may find in local storage, by the user's hand: no entry,
\* an unreadable one, and objects whose fields are missing, not finite,
\* negative, fractional, oversized, or a time yet to come
Tampered ==
    {NothingStored, Unreadable} \cup
    { StoredObject(tokensStored, lastRefillStored) :
        tokensStored \in {Missing, NotFinite, JsNumber(-3), Whole(0), JsNumber(5), Whole(99)},
        lastRefillStored \in {Missing, NotFinite, Whole(0), Whole(now + 30 * 60 * 1000)} }

\* the page is loaded again: its state is initialised anew, the locale and
\* the bucket from local storage (page.tsx lines 990-1047)
Reload(saved) ==
    /\ revision # "none"
    /\ gestures < MaxGestures
    /\ gestures' = gestures + 1
    /\ selectedFile' = NoFile
    /\ fileContent' = <<>>
    /\ analysisText' = <<>>
    /\ analysis' = Null
    /\ analysisSource' = "null"
    /\ status' = Status("idle", "")
    /\ errorState' = NoError
    /\ isAnalyzing' = FALSE
    /\ reading' = {}
    /\ run' = Idle
    /\ \E revived \in {InitialTokenState(revision, saved, now)} :
          /\ tokens' = revived.tokens
          /\ lastRefill' = revived.lastRefill
    /\ UNCHANGED <<engine, result, site, pageLocale, now>>

\* the file and the answer of this specification
TokenFile == CHOOSE file \in Files : file.type = "text/plain"

TokenReply == CHOOSE reply \in Replies : ~reply.ok

NextTokens ==
    \/ \E served \in {"app", "unnamed"} : Deploy(served, "token")
    \/ handleFileChange(TokenFile)
    \/ handleAnalyze
    \/ Serve(TokenReply)
    \/ Receive
    \/ \E parsed \in BOOLEAN : Extracted(parsed)
    \/ Analysed
    \/ Settle
    \/ \E minutes \in {5, 30} : Advance(minutes)
    \/ Tick
    \/ \E saved \in {Written} \cup Tampered : Reload(saved)

SpecTokens == Init /\ [][NextTokens]_vars

(***************************************************************************)
(* The route alone, posted to by any client.                               *)
(***************************************************************************)
Post(form, reply) ==
    /\ revision # "none"
    /\ \E served \in {Route(revision, form, apiKey, reply)} :
          /\ response' = served.response
          /\ request' = form
          /\ prompt' = served.prompt
          /\ result' = IF served.call.status = "none" THEN result ELSE served.call
    /\ UNCHANGED <<engine, revision, apiKey, page>>

NextRoute ==
    \/ \E served \in {"app", "unnamed"} : \E token \in {"undefined", "token"} :
          Deploy(served, token)
    \/ \E form \in Forms : \E reply \in Replies : Post(form, reply)

SpecRoute == Init /\ [][NextRoute]_vars

(***************************************************************************)
(* Properties of the engine.                                               *)
(***************************************************************************)
Called == result.status # "none"
Returned == result.status = "returned"

\* the call named a supported locale, or none (the parameter's default)
Supported(localeArg) == LocaleParameter(localeArg) \in Locale

\* the copy table of a supported call
CopyOf(localeArg) == fallbackDictionary[LocaleParameter(localeArg)]

\* the placeholder evidence entry of a copy table
Placeholder(copy) ==
    [quote |-> copy.evidence.noDataQuote, rationale |-> copy.evidence.noDataDetail]

\* C1: for every input text and either locale the result's lieProbability is
\* an integer from 5 to 96 and its confidenceScore an integer from 38 to 94.
C1_ScoresWithinBounds ==
    (Returned /\ Supported(result.locale)) =>
        /\ result.value.lieProbability \in 5..96
        /\ result.value.confidenceScore \in 38..94

\* a result in which both clamps decided the score
C1_BothClampsActive ==
    /\ Returned
    /\ result.locale \in Locale
    /\ result.value.lieProbability = 96
    /\ result.value.confidenceScore = 38

C3_UnsupportedLocaleFallsBack ==
    (Called /\ ~Supported(result.locale)) =>
        /\ Returned
        /\ result.value.summary.lang = "ko"
        /\ \A k \in 1..Len(result.value.cues) :
              /\ result.value.cues[k].label.lang = "ko"
              /\ result.value.cues[k].detail.lang = "ko"
        /\ \A k \in 1..Len(result.value.metrics) :
              /\ result.value.metrics[k].label.lang = "ko"
              /\ result.value.metrics[k].hint.lang = "ko"
        /\ \A k \in 1..Len(result.value.evidence) :
              result.value.evidence[k].rationale.lang = "ko"

Qualifies(sentence) ==
    \E k \in 1..Len(hedgingKeywords \o pressureKeywords) :
        includes(toLowerCase(sentence), (hedgingKeywords \o pressureKeywords)[k])

IsSentenceOf(chars, text) ==
    \E j \in 1..Len(SentencesOf(trim(text))) : chars = SentencesOf(trim(text))[j]

NoSentenceQualifies(text) ==
    \A j \in 1..Len(SentencesOf(trim(text))) : ~Qualifies(SentencesOf(trim(text))[j])

\* C5: the evidence list of a result has between 1 and 3 entries; it is the
\* one placeholder entry of the result's locale when no sentence qualifies
\* for highlighting, and otherwise the quote of every entry is a sentence of
\* the transcript.
C5_EvidenceShape ==
    (Returned /\ Supported(result.locale)) =>
        /\ Len(result.value.evidence) \in 1..3
        /\ IF NoSentenceQualifies(result.text)
           THEN result.value.evidence = <<Placeholder(CopyOf(result.locale))>>
           ELSE \A k \in 1..Len(result.value.evidence) :
                   /\ result.value.evidence[k].quote.key = "verbatim"
                   /\ IsSentenceOf(result.value.evidence[k].quote.args[1], result.text)

\* a transcript with four qualifying sentences, of which three are quoted
C5_MoreSentencesThanEvidence ==
    /\ Returned
    /\ result.locale \in Locale
    /\ Cardinality({j \in 1..Len(SentencesOf(trim(result.text))) :
                       Qualifies(SentencesOf(trim(result.text))[j])}) > 3
    /\ Len(result.value.evidence) = 3

\* C6: for the empty string and for white space only, in either locale, the
\* result has lieProbability 42, exactly the three density cues, each with
\* risk Baseline and value "0.0%", no conflict cue, and one evidence entry:
\* the placeholder of that locale.
C6_EmptyTranscript ==
    (Called /\ Supported(result.locale) /\ trim(result.text) = <<>>) =>
        /\ Returned
        /\ result.value.lieProbability = 42
        /\ Len(result.value.cues) = 3
        /\ \A k \in 1..Len(result.value.cues) :
              /\ result.value.cues[k].risk = "Baseline"
              /\ result.value.cues[k].value = Verbatim(<<"0", ".", "0", "%">>)
              /\ result.value.cues[k].label.key # "conflictLabel"
        /\ result.value.evidence = <<Placeholder(CopyOf(result.locale))>>

\* white space only has been analysed in the English locale
C6_WhitespaceAnalysed ==
    /\ Returned
    /\ result.locale = "en"
    /\ Len(result.text) > 1
    /\ trim(result.text) = <<>>

\* C7: no input makes lieProbability smaller than 42.
C7_LieProbabilityAtLeastBase ==
    Returned => result.value.lieProbability >= 42

\* a transcript with negations and nothing else scores above the base
C7_NegationRaisesScore ==
    /\ Returned
    /\ countKeywordHits(trim(result.text), negationKeywords).value > 0
    /\ countKeywordHits(trim(result.text), hedgingKeywords).value = 0
    /\ countKeywordHits(trim(result.text), pressureKeywords).value = 0
    /\ result.value.lieProbability > 42
    /\ result.value.lieProbability < 96

\* keyword occurs in folded at position i with no word character next to it
StandaloneAt(folded, keyword, i) ==
    /\ OccursAt(folded, keyword, i)
    /\ ~(i > 1 /\ IsWordChar(folded[i - 1]))
    /\ ~(i + Len(keyword) <= Len(folded) /\ IsWordChar(folded[i + Len(keyword)]))

\* the standalone occurrences of the keywords of a list in the folded text
StandaloneOccurrences(folded, keywords) ==
    Cardinality({ka \in (1..Len(keywords)) \X (1..Len(folded)) :
                    StandaloneAt(folded, keywords[ka[1]], ka[2])})

\* C8: the hits of a keyword list are the standalone occurrences of its
\* keywords: letters inside a longer word count for nothing, every
\* standalone occurrence, of 'i think' and of '100%' too, counts once.
C8_HitsAreStandaloneOccurrences ==
    Called =>
        /\ countKeywordHits(trim(result.text), hedgingKeywords).value
             = StandaloneOccurrences(toLowerCase(trim(result.text)), hedgingKeywords)
        /\ countKeywordHits(trim(result.text), pressureKeywords).value
             = StandaloneOccurrences(toLowerCase(trim(result.text)), pressureKeywords)
        /\ countKeywordHits(trim(result.text), negationKeywords).value
             = StandaloneOccurrences(toLowerCase(trim(result.text)), negationKeywords)

\* the sentence holds a contrast joiner as a standalone word
HasStandaloneJoiner(normalized) ==
    \E k \in 1..Len(contradictionJoiners) : \E i \in 1..Len(normalized) :
        StandaloneAt(normalized, contradictionJoiners[k], i)

\* the sentences with a standalone joiner and a marker
ConflictingClauses(text) ==
    Cardinality({j \in 1..Len(SentencesOf(trim(text))) :
                    /\ HasStandaloneJoiner(toLowerCase(SentencesOf(trim(text))[j]))
                    /\ HasMarker(toLowerCase(SentencesOf(trim(text))[j]))})

\* C9: every sentence with a standalone contrast joiner and a denial or
\* assertion marker is counted as a conflicting clause: the result has the
\* conflict cue exactly when there is such a sentence, and its value is their
\* number (at most the three the engine keeps).
C9_EveryJoinerSentenceCounted ==
    (Returned /\ Supported(result.locale)) =>
        IF ConflictingClauses(result.text) = 0
        THEN Len(result.value.cues) = 3
        ELSE /\ Len(result.value.cues) = 4
             /\ result.value.cues[4].label.key = "conflictLabel"
             /\ result.value.cues[4].value
                  = Verbatim(IntToString(Min(3, ConflictingClauses(result.text))))

\* the number a digit stands for
DigitValue(c) == CHOOSE d \in 0..9 : DigitChar(d) = c

RECURSIVE DigitsValue(_)
DigitsValue(chars) ==
    IF chars = <<>> THEN 0
    ELSE 10 * DigitsValue(SubSeq(chars, 1, Len(chars) - 1)) + DigitValue(chars[Len(chars)])

\* the number of tenths of a percent a cue value such as "12.5%" states
TenthsOf(value) ==
    10 * DigitsValue(SubSeq(value.args[1], 1, Len(value.args[1]) - 3))
    + DigitValue(value.args[1][Len(value.args[1]) - 1])

\* the hedging cue of a returned outcome
HedgingCueOf(outcome) == outcome.value.cues[1]

\* the hedging cue value of n repetitions of a keyword, n >= 1: the share of
\* the words that start an occurrence
RepeatedShare(keyword) ==
    IF \E i \in 1..Len(keyword) : keyword[i] = " "
    THEN <<"5", "0", ".", "0", "%">>
    ELSE <<"1", "0", "0", ".", "0", "%">>

\* C10, as the code has it: for a text of n repetitions of one hedging keyword
\* the hedging cue value is "0.0%" with risk Baseline for n = 0 and, for
\* every n >= 1, the same value whatever n is ("100.0%" for a one-word
\* keyword, "50.0%" for a two-word one) with risk Elevated; the risk is
\* Elevated exactly when the value exceeds 3.5%.
C10_RepeatedKeywordDensity ==
    (Returned /\ Supported(result.locale)) =>
        \A k \in 1..Len(hedgingKeywords) :
            result.text = Repeated(hedgingKeywords[k], typed) =>
                /\ HedgingCueOf(result).label.key = "hedgingLabel"
                /\ HedgingCueOf(result).value
                     = Verbatim(IF typed = 0 THEN <<"0", ".", "0", "%">>
                                ELSE RepeatedShare(hedgingKeywords[k]))
                /\ HedgingCueOf(result).risk
                     = (IF typed = 0 THEN "Baseline" ELSE "Elevated")
                /\ (HedgingCueOf(result).risk = "Elevated")
                     <=> (TenthsOf(HedgingCueOf(result).value) > 35)

\* three or more repetitions of a two-word keyword have been analysed
C10_TwoWordKeywordRepeated ==
    /\ Returned
    /\ result.locale \in Locale
    /\ typed >= 3
    /\ HedgingCueOf(result).value = Verbatim(<<"5", "0", ".", "0", "%">>)
    /\ HedgingCueOf(result).risk = "Elevated"

\* C10, as stated: the hedging cue value of n repetitions of one hedging
\* keyword is strictly greater than that of n - 1 repetitions.
C10_ValueGrowsWithRepetition ==
    (Returned /\ Supported(result.locale) /\ typed >= 2) =>
        \A k \in 1..Len(hedgingKeywords) :
            result.text = Repeated(hedgingKeywords[k], typed) =>
                TenthsOf(HedgingCueOf(result).value)
                  > TenthsOf(HedgingCueOf(analyzeTranscriptFallback(
                                 Repeated(hedgingKeywords[k], typed - 1),
                                 result.locale)).value)

\* the other supported locale
OtherLocale(locale) == IF locale = "ko" THEN "en" ELSE "ko"

\* the evidence of a result quotes sentences (it is not the placeholder)
QuotesSentences(value) == value.evidence[1].quote.key = "verbatim"

\* two results agree on everything that is not copy
AgreeOnNumbers(a, b) ==
    /\ a.lieProbability = b.lieProbability
    /\ a.confidenceScore = b.confidenceScore
    /\ Len(a.cues) = Len(b.cues)
    /\ \A k \in 1..Len(a.cues) :
          a.cues[k].value = b.cues[k].value /\ a.cues[k].risk = b.cues[k].risk
    /\ Len(a.metrics) = Len(b.metrics)
    /\ \A k \in 1..Len(a.metrics) : a.metrics[k].value = b.metrics[k].value
    /\ Len(a.evidence) = Len(b.evidence)
    /\ QuotesSentences(a) = QuotesSentences(b)
    /\ QuotesSentences(a) =>
          \A k \in 1..Len(a.evidence) : a.evidence[k].quote = b.evidence[k].quote

\* two results differ in every piece of copy
DifferInCopy(a, b) ==
    /\ a.summary # b.summary
    /\ \A k \in 1..Len(a.cues) :
          a.cues[k].label # b.cues[k].label /\ a.cues[k].detail # b.cues[k].detail
    /\ \A k \in 1..Len(a.metrics) :
          a.metrics[k].label # b.metrics[k].label /\ a.metrics[k].hint # b.metrics[k].hint
    /\ ~QuotesSentences(a) =>
          /\ a.evidence[1].quote # b.evidence[1].quote
          /\ a.evidence[1].rationale # b.evidence[1].rationale

\* C11: for every text the 'ko' and the 'en' result agree on lieProbability,
\* confidenceScore, the number of cues, each cue's value and risk, each
\* metric's value, the number of evidence entries and, when sentences are
\* highlighted, their quotes; summary, cue labels and details, metric labels
\* and hints and the placeholder evidence copy differ.
C11_LocalesAgreeOnNumbers ==
    (Returned /\ result.locale \in Locale) =>
        /\ AgreeOnNumbers(result.value,
               analyzeTranscriptFallback(result.text, OtherLocale(result.locale)).value)
        /\ DifferInCopy(result.value,
               analyzeTranscriptFallback(result.text, OtherLocale(result.locale)).value)

\* an English result with a conflict cue and quoted sentences
C11_RichEnglishResult ==
    /\ Returned
    /\ result.locale = "en"
    /\ Len(result.value.cues) = 4
    /\ QuotesSentences(result.value)
    /\ Len(result.value.evidence) >= 2

\* the string holds letters; the strings the engine builds itself are
\* written in Latin letters
HasLetters(chars) == \E i \in 1..Len(chars) : chars[i] \in LowerChars \cup UpperChars

\* the language of a text field: that of the copy table it comes from; for a
\* string the engine builds itself, English if it holds words and none if it
\* holds digits and signs only
LanguageOf(field) ==
    IF field.key = "verbatim"
    THEN (IF HasLetters(field.args[1]) THEN "en" ELSE "none")
    ELSE field.lang

InLanguage(field, locale) == LanguageOf(field) \in {locale, "none"}

\* the prefixes joined into an evidence rationale are in the language too
RationaleInLanguage(rationale, locale) ==
    /\ InLanguage(rationale, locale)
    /\ rationale.key = "evidence.rationale" =>
          \A j \in 1..Len(rationale.args) : InLanguage(rationale.args[j].prefix, locale)

\* C12: every text field the engine produces in a result (summary, cue
\* labels and details, metric labels, values and hints, evidence rationale
\* and placeholder copy) is in the language of the requested locale: nothing
\* English in a 'ko' result, nothing Korean in an 'en' result.
C12_TextInRequestedLanguage ==
    (Returned /\ result.locale \in Locale) =>
        /\ InLanguage(result.value.summary, result.locale)
        /\ \A k \in 1..Len(result.value.cues) :
              /\ InLanguage(result.value.cues[k].label, result.locale)
              /\ InLanguage(result.value.cues[k].detail, result.locale)
        /\ \A k \in 1..Len(result.value.metrics) :
              /\ InLanguage(result.value.metrics[k].label, result.locale)
              /\ InLanguage(result.value.metrics[k].value, result.locale)
              /\ InLanguage(result.value.metrics[k].hint, result.locale)
        /\ \A k \in 1..Len(result.value.evidence) :
              /\ RationaleInLanguage(result.value.evidence[k].rationale, result.locale)
              /\ ~QuotesSentences(result.value) =>
                    InLanguage(result.value.evidence[k].quote, result.locale)

\* the conflicting clauses the engine detects in a transcript
DetectedClauses(text) == Len(ContradictionCandidates(SentencesOf(trim(text))))

\* C13: a result has exactly three metrics, in the order word count, sentence
\* coverage, negation frequency; its cues are hedging, pressure, negation, in
\* that order, followed by the conflict cue exactly when at least one
\* conflicting clause was detected: never fewer than 3 cues, never more than 4.
C13_CueAndMetricOrder ==
    (Returned /\ Supported(result.locale)) =>
        /\ Len(result.value.metrics) = 3
        /\ result.value.metrics[1].label.key = "metrics.wordCountLabel"
        /\ result.value.metrics[2].label.key = "metrics.coverageLabel"
        /\ result.value.metrics[3].label.key = "metrics.negationLabel"
        /\ Len(result.value.cues) = (IF DetectedClauses(result.text) > 0 THEN 4 ELSE 3)
        /\ result.value.cues[1].label.key = "hedgingLabel"
        /\ result.value.cues[2].label.key = "pressureLabel"
        /\ result.value.cues[3].label.key = "negationLabel"
        /\ Len(result.value.cues) = 4 => result.value.cues[4].label.key = "conflictLabel"

\* a Korean result with the conflict cue for two detected clauses
C13_ConflictCuePresent ==
    /\ Returned
    /\ result.locale = "ko"
    /\ DetectedClauses(result.text) = 2
    /\ Len(result.value.cues) = 4
    /\ result.value.cues[4].label.key = "conflictLabel"

\* the hits of a keyword list in a transcript, and its word count
HitsIn(text, keywords) == countKeywordHits(toLowerCase(trim(text)), keywords).value
WordCount(text) == Len(WordsOf(toLowerCase(trim(text))))

\* r is the rational num / den rounded to the nearest integer, halves going
\* up: r - 1/2 <= num / den < r + 1/2
IsRounded(r, num, den) ==
    /\ (2 * r - 1) * den <= 2 * num
    /\ 2 * num < (2 * r + 1) * den

\* v is x clamped to lo..hi
IsClamped(v, x, lo, hi) == v = (IF x < lo THEN lo ELSE IF x > hi THEN hi ELSE x)

\* lie = clamp(round(42 + 520 h / w + 360 p / w + 180 n / w + 4 c), 5, 96)
IsLieProbability(lie, h, p, n, w, c) ==
    \E r \in 0..2000 :
        /\ IsRounded(r, 42 * w + 520 * h + 360 * p + 180 * n + 4 * c * w, w)
        /\ IsClamped(lie, r, 5, 96)

IsConfidence(conf, h, p, w) ==
    \E r \in -300..100 :
        /\ IsRounded(r, 58 * 320 * Max(w, 1) + 32 * Min(w, 320) * Max(w, 1)
                        - 120 * Abs(h - p) * 320,
                     320 * Max(w, 1))
        /\ IsClamped(conf, r, 38, 94)

HedgingTier(risk, hits, words) ==
    /\ risk = "Elevated" <=> 1000 * hits > 35 * words
    /\ risk # "Elevated" => risk = "Baseline"

PressureTier(risk, hits, words) ==
    /\ risk = "Critical" <=> 1000 * hits > 30 * words
    /\ risk = "Elevated" <=> (1000 * hits > 15 * words /\ 1000 * hits <= 30 * words)
    /\ risk \notin {"Critical", "Elevated"} => risk = "Baseline"

NegationTier(risk, hits, words) ==
    /\ risk = "Elevated" <=> 1000 * hits > 25 * words
    /\ risk # "Elevated" => risk = "Baseline"

ConflictTier(risk, count) ==
    /\ risk = "Critical" <=> count > 1
    /\ risk # "Critical" => risk = "Elevated"

\* C19: each cue's risk follows its own thresholds: hedging is Elevated iff
\* its density > 0.035 and otherwise Baseline, never Critical; pressure is
\* Critical iff density > 0.03, Elevated iff 0.015 < density <= 0.03, else
\* Baseline; negation is Elevated iff density > 0.025, else Baseline; the
\* conflict cue is Critical iff the clause count > 1, else Elevated.
C19_RiskTiers ==
    /\ (Returned /\ Supported(result.locale)) =>
          /\ HedgingTier(result.value.cues[1].risk,
                         HitsIn(result.text, hedgingKeywords),
                         Max(WordCount(result.text), 1))
          /\ PressureTier(result.value.cues[2].risk,
                          HitsIn(result.text, pressureKeywords),
                          Max(WordCount(result.text), 1))
          /\ NegationTier(result.value.cues[3].risk,
                          HitsIn(result.text, negationKeywords),
                          Max(WordCount(result.text), 1))
          /\ Len(result.value.cues) = 4 =>
                ConflictTier(result.value.cues[4].risk, DetectedClauses(result.text))
    /\ sample.status = "scored" =>
          /\ HedgingTier(sample.hedgingRisk, sample.hedgingHits, Max(sample.words, 1))
          /\ PressureTier(sample.pressureRisk, sample.pressureHits, Max(sample.words, 1))
          /\ NegationTier(sample.negationRisk, sample.negationHits, Max(sample.words, 1))

\* counts whose three densities fall into three different tiers: hedging
\* present but Baseline, pressure Elevated, negation Elevated
C19_TiersApart ==
    /\ sample.status = "scored"
    /\ sample.hedgingHits = 1
    /\ sample.pressureHits = 1
    /\ sample.negationHits = 1
    /\ sample.hedgingRisk = "Baseline"
    /\ sample.pressureRisk = "Elevated"
    /\ sample.negationRisk = "Elevated"

\* the sentence holds one of the markers "didn't", "did", "never", "no"
HasListedMarker(normalized) ==
    \/ includes(normalized, <<"d","i","d","n","'","t">>)
    \/ includes(normalized, <<"d","i","d">>)
    \/ includes(normalized, <<"n","e","v","e","r">>)
    \/ includes(normalized, <<"n","o">>)

\* the sentences with a standalone joiner and a listed marker, in order
QualifyingClauses(sentences) ==
    Filter(sentences,
           [k \in 1..Len(sentences) |->
               /\ HasStandaloneJoiner(toLowerCase(sentences[k]))
               /\ HasListedMarker(toLowerCase(sentences[k]))])

\* the first n elements of a sequence, or all of it
FirstOf(seq, n) == SubSeq(seq, 1, IF Len(seq) < n THEN Len(seq) ELSE n)

\* C20: the conflicting clauses the engine retains are the first three (or
\* all, if fewer) of the sentences that hold a contrast joiner as a
\* standalone word and one of the markers "didn't", "did", "never", "no", in
\* transcript order; no other sentence is counted, and the clauses add at
\* most 12 to the base score.
C20_ContradictionCount ==
    Called =>
        /\ ContradictionCandidates(SentencesOf(trim(result.text)))
             = FirstOf(QualifyingClauses(SentencesOf(trim(result.text))), 3)
        /\ 4 * DetectedClauses(result.text) <= 12


(***************************************************************************)
(* Properties of the application.                                          *)
(***************************************************************************)
\* no character of [\u0000-\u001F\u007F] and no more than MAX_CHARS characters
Sanitized(text) ==
    /\ \A i \in 1..Len(text) : text[i] \notin ControlChars
    /\ Len(text) <= MAX_CHARS

\* C14: every text that reaches analyzeTranscriptFallback, from the route or
\* from the page's own analysis, has no control character left in it and is at
\* most 12000 characters long.
C14_EngineTextsSanitized == Called => Sanitized(result.text)

\* what the route reports when the classifier gave no usable analysis: the
\* token is missing, the call failed, the reply has no content, or the content
\* is not JSON; a request gets that far only with a supported file that has
\* text in it
ModelFailures == {"token missing", "call failed", "no content", "not JSON"}

\* C15: a run of the page whose request met a missing token or a failed model
\* call ends with a heuristic analysis shown under the fallback status, not
\* with a failure status: whenever the status reports such a failure, it is
\* the fallback status and an analysis is shown.
C15_ModelFailureEndsInHeuristic ==
    status.detail \in ModelFailures => (status.key = "fallback" /\ analysis # Null)

\* the fields of an AnalysisResult
AnalysisFields ==
    {"lieProbability", "confidenceScore", "summary", "cues", "metrics", "evidence"}

SuccessResponse == response.status = 200 /\ response.body.success

\* C16: every success response of POST /api/analyze carries an analysis that
\* has all six fields of an AnalysisResult, whatever the classifier returned.
C16_SuccessCarriesFullAnalysis ==
    SuccessResponse => AnalysisFields \subseteq DOMAIN response.body.analysis

\* C29: confidenceScore never exceeds 90, so the upper clamp bound 94 is never
\* the returned value; a text of at least 320 words without hedging and
\* pressure hits gets exactly 90.
C29_ConfidenceAtMost90 ==
    /\ (Returned /\ Supported(result.locale)) => result.value.confidenceScore <= 90
    /\ sample.status = "scored" =>
          /\ sample.confidenceScore <= 90
          /\ (sample.words >= 320 /\ sample.hedgingHits = 0 /\ sample.pressureHits = 0)
                => sample.confidenceScore = 90

\* 320 words or more without any signal have been scored, with 90
C29_ZeroSignalSaturated ==
    /\ sample.status = "scored"
    /\ sample.words >= 320
    /\ sample.hedgingHits = 0
    /\ sample.pressureHits = 0
    /\ sample.negationHits = 0
    /\ sample.confidenceScore = 90

\* the word-boundary matches of hedging and pressure keywords in a sentence
BoundaryMatches(sentence) ==
    HitsIn(sentence, hedgingKeywords) + HitsIn(sentence, pressureKeywords)

\* C30: highlighting and density scoring agree on what a keyword match is:
\* when the hedging and the pressure hit counts of the text are both zero, no
\* sentence is highlighted (the evidence is the one placeholder entry and the
\* sentence-coverage metric is 0%), and every highlighted sentence has at
\* least one word-boundary match of a hedging or pressure keyword.
C30_HighlightsAgreeWithHits ==
    (Returned /\ Supported(result.locale)) =>
        /\ (HitsIn(result.text, hedgingKeywords) = 0
            /\ HitsIn(result.text, pressureKeywords) = 0)
              => /\ result.value.evidence = <<Placeholder(CopyOf(result.locale))>>
                 /\ result.value.metrics[2].value = Verbatim(<<"0", "%">>)
        /\ \A k \in 1..Len(result.value.evidence) :
              result.value.evidence[k].quote.key = "verbatim"
                => BoundaryMatches(result.value.evidence[k].quote.args[1]) > 0

\* the sentence includes a keyword of the list
HasKeywordOf(sentence, keywords) ==
    \E k \in 1..Len(keywords) : includes(toLowerCase(sentence), keywords[k])

\* the signal `keyword(count)` names a keyword of the list that the sentence
\* includes
SignalFrom(signal, sentence, keywords) ==
    \E k \in 1..Len(keywords) :
        /\ Len(signal) > Len(keywords[k])
        /\ SubSeq(signal, 1, Len(keywords[k]) + 1) = keywords[k] \o <<"(">>
        /\ includes(toLowerCase(sentence), keywords[k])

\* a part `prefix: signal` of a rationale belongs to the quoted sentence
PartBelongsTo(part, sentence) ==
    /\ part.prefix.key = "evidence.hedgePrefix" =>
          /\ HasKeywordOf(sentence, hedgingKeywords)
          /\ SignalFrom(part.signal, sentence, hedgingKeywords)
    /\ part.prefix.key = "evidence.pressurePrefix" =>
          /\ HasKeywordOf(sentence, pressureKeywords)
          /\ SignalFrom(part.signal, sentence, pressureKeywords)

\* C22: in every evidence entry that is not the placeholder the rationale
\* refers to what triggered the selection of the quoted sentence: it has the
\* hedging prefix only if the sentence contains a hedging keyword, the
\* pressure prefix only if it contains a pressure keyword, and the keyword
\* signals it shows are keywords present in that sentence.
C22_RationaleBelongsToQuote ==
    (Returned /\ Supported(result.locale)) =>
        \A k \in 1..Len(result.value.evidence) :
            result.value.evidence[k].rationale.key = "evidence.rationale" =>
                \A j \in 1..Len(result.value.evidence[k].rationale.args) :
                    PartBelongsTo(result.value.evidence[k].rationale.args[j],
                                  result.value.evidence[k].quote.args[1])

\* the raw number of occurrences of hedging and pressure keywords in a
\* sentence: every place where a keyword occurs in the lower-cased sentence
Occurrences(sentence) ==
    Cardinality({ka \in (1..Len(hedgingKeywords \o pressureKeywords)) \X (1..Len(sentence)) :
                    OccursAt(toLowerCase(sentence), (hedgingKeywords \o pressureKeywords)[ka[1]],
                             ka[2])})

\* sentence i comes before sentence j when sorted by descending occurrences,
\* ties in transcript order
RanksBefore(sentences, i, j) ==
    \/ Occurrences(sentences[i]) > Occurrences(sentences[j])
    \/ Occurrences(sentences[i]) = Occurrences(sentences[j]) /\ i < j

\* the sentences with a nonzero score
Scoring(sentences) == {j \in 1..Len(sentences) : Occurrences(sentences[j]) > 0}

\* the place of a scoring sentence in that order, counted from 1
PlaceOf(sentences, j) ==
    1 + Cardinality({i \in Scoring(sentences) : RanksBefore(sentences, i, j)})

\* the first three sentences of that order
TopByOccurrences(sentences) ==
    [k \in 1..Min(3, Cardinality(Scoring(sentences))) |->
        sentences[CHOOSE j \in Scoring(sentences) : PlaceOf(sentences, j) = k]]

\* the quotes of the evidence entries that are not the placeholder
QuotesOf(evidence) ==
    IF evidence[1].quote.key # "verbatim" THEN <<>>
    ELSE [k \in 1..Len(evidence) |-> evidence[k].quote.args[1]]

\* C21: the evidence quotes are the first three of the sentences with a
\* nonzero highlight score, ordered by descending score with ties in
\* transcript order, where the score of a sentence is the raw number of
\* occurrences of hedging and pressure keywords in it.
C21_QuotesByOccurrences ==
    (Returned /\ Supported(result.locale)) =>
        QuotesOf(result.value.evidence) = TopByOccurrences(SentencesOf(trim(result.text)))

(***************************************************************************)
(* The route's checks of its input.                                        *)
(***************************************************************************)
\* the declared media type is no key of SUPPORTED_TYPES and the extension is
\* no key of FALLBACK_EXTENSIONS
NeitherSupported(file) ==
    /\ file.type \notin SUPPORTED_TYPES
    /\ RouteExtension(file.name) \notin DOMAIN FALLBACK_EXTENSIONS

\* the inputs the route is to refuse: no file, no supported type, no text left
\* after the control characters are replaced and the ends trimmed
Refusable(form) ==
    \/ form.file = NoFile
    \/ NeitherSupported(form.file)
    \/ StripControl(form.file.text) = <<>>

\* C24: a request without a file, with a file whose declared type and
\* extension are both unsupported, or with a file without text is answered
\* with status 400 and success false and the remote classifier is not called;
\* a transcript sent to the classifier is non-empty and at most MAX_CHARS long
C24_InputCheckedBeforeRemoteCall ==
    request # NoRequest =>
        /\ Refusable(request) =>
              (response.status = 400 /\ ~response.body.success /\ ~prompt.sent)
        /\ prompt.sent =>
              (prompt.transcript # <<>> /\ Len(prompt.transcript) <= MAX_CHARS)

(***************************************************************************)
(* The token bucket.                                                       *)
(***************************************************************************)
\* a step that starts a run of handleAnalyze
AnalysisStarts == ~isAnalyzing /\ isAnalyzing'

\* C25: after any analyze clicks, timer ticks and restores from local storage,
\* tampered values included, the token count is an integer from 0 to
\* TOKEN_MAX; a run starts only with a token at hand, and takes exactly one
C25_TokensBoundedAndSpent ==
    /\ [](tokens \in 0..TOKEN_MAX)
    /\ [][AnalysisStarts => (tokens > 0 /\ tokens' = tokens - 1)]_vars

\* a run was started with the last token, some time after the page was opened
C25_LastTokenSpent == isAnalyzing /\ tokens = 0 /\ lastRefill = now /\ now > 0

\* the interval the page's copy states: "Recharges 1 token every 30 minutes"
\* (page.tsx lines 231 and 365)
StatedInterval == 30 * 60 * 1000

\* C26: a tick of the timer on a bucket that is not full adds one token for
\* each full 30 minutes elapsed since the last refill, up to TOKEN_MAX, and
\* leaves a full bucket alone; spending from a full bucket starts the interval
\* at the time of the spend
C26_RechargeEveryThirtyMinutes ==
    [][/\ Tick =>
            tokens' = Min(TOKEN_MAX, tokens + Max(0, now - lastRefill) \div StatedInterval)
       /\ (AnalysisStarts /\ tokens = TOKEN_MAX) => lastRefill' = now]_vars

(***************************************************************************)
(* What the page shows of the engine's result.                             *)
(***************************************************************************)
\* the six fields of two results are equal
SameFields(shown, computed) ==
    /\ shown.lieProbability = computed.lieProbability
    /\ shown.confidenceScore = computed.confidenceScore
    /\ shown.summary = computed.summary
    /\ shown.cues = computed.cues
    /\ shown.metrics = computed.metrics
    /\ shown.evidence = computed.evidence

\* C23: once an analysis of the text T in the locale L is complete on the page
\* of src/app, the lieProbability, confidenceScore, summary, cues, metrics and
\* evidence shown are those of analyzeTranscriptFallback(T, L)
C23_ShownIsEngineResult ==
    (revision = "app" /\ status.key = "done" /\ analysis # Null) =>
        SameFields(analysis, analyzeTranscriptFallback(analysisText, pageLocale).value)

(***************************************************************************)
(* The end of a run, and the file a result belongs to.                     *)
(***************************************************************************)
\* a step that ends a run of handleAnalyze
AnalysisEnds == isAnalyzing /\ ~isAnalyzing'

\* the status keys a run ends with, and those that come with a result
EndKeys == {"done", "fallback", "failure"}

ResultKeys == {"done", "fallback"}

\* C27: every run of handleAnalyze ends, and when isAnalyzing becomes false
\* again the status is done, fallback or failure, with an analysis shown
\* exactly when it is done or fallback; the formula is the second half, the
\* state a run leaves when it ends
C27_RunEndsWithResult ==
    [][AnalysisEnds =>
          /\ status'.key \in EndKeys
          /\ (analysis' # Null) <=> (status'.key \in ResultKeys)]_vars

\* the texts extractTextFromFile can yield for a file
TextsOf(file) ==
    {extractTextFromFile(file, cachedText, parsed) :
        cachedText \in {<<>>, file.text}, parsed \in BOOLEAN}

\* C28: on the page of src/app, an analysis that is shown, and a status done,
\* belong to the file that is selected now: the text analysed is a text of
\* that file
C28_ShownBelongsToSelection ==
    (revision = "app" /\ (analysis # Null \/ status.key = "done")) =>
        (selectedFile # NoFile /\ analysisText \in TextsOf(selectedFile))

=============================================================================
